---- MODULE Spec2Model ----
(***************************************************************************)
(* Content store of Inkwell Haven: the DatabaseStorage class               *)
(* (src/unnamed/part_000) over the tables of src/schema.ts.                *)
(*                                                                         *)
(* Every `await db....` of a storage method is one atomic statement of the *)
(* relational store.  Methods that issue several statements (toggleLike,   *)
(* createBookmark) are modelled statement by statement, one request per    *)
(* process, so that the statements of concurrent requests interleave.      *)
(*                                                                         *)
(* Columns that no operation branches on (title, content, excerpt,         *)
(* coverImageUrl, wordCount, selectedText, ...) are not carried.           *)
(***************************************************************************)
EXTENDS Integers, Sequences, FiniteSets, Bags, TLC

VARIABLES now, stories, likes, notifications, bookmarks, procs, feed, mon,
          chapters, users, drafts, resp, highlights, quotes

vars == <<now, stories, likes, notifications, bookmarks, procs, feed, mon,
          chapters, users, drafts, resp, highlights, quotes>>

\* The tables of what readers mark in a story.
marks == <<highlights, quotes>>

\* The tables and the response that the story, like, bookmark and feed
\* operations neither read nor write.
others == <<chapters, users, drafts, resp, marks>>

(***************************************************************************)
(* Bounds of the model.                                                    *)
(***************************************************************************)
MaxTime == 2
MaxStories == 2
MaxNotifications == 2
MaxBookmarks == 2
MaxChapters == 3
MaxPosition == 1
MaxHighlights == 2
MaxQuotes == 2
LimitMargin == 2
MaxDrafts == 2
NumProcs == 2

Users == {"u1", "u2"}
Categories == {"story", "poem"}
StoryIds == 1..MaxStories
Procs == 1..NumProcs
Times == 1..MaxTime

\* A nullable column holds Null or Some(v).
Null == <<>>
Some(v) == <<v>>

\* An optional argument or field that the caller left out (JS undefined).
Undefined == "undefined"

(***************************************************************************)
(* stories (src/schema.ts:39-53).  The row id is its index in the          *)
(* sequence: rows are never deleted and ids are never reused.              *)
(***************************************************************************)
StoryColumns == {"authorId", "category", "published", "publishedAt",
                 "hasChapters", "createdAt", "updatedAt"}

\* An object property f with a value of S; an optional one may be left out
\* (the object then has no such key).  Objects are merged with @@.
Optional(f, S) == {<<>>} \cup { f :> v : v \in S }
Required(f, S) == { f :> v : v \in S }

\* InsertStory = z.infer<insertStorySchema>: the stories columns without id,
\* createdAt, updatedAt and publishedAt.  authorId and category are
\* required (notNull, no default); published and hasChapters are optional.
InsertStory ==
    { a @@ c @@ p @@ h :
        a \in Required("authorId", Users),
        c \in Required("category", Categories),
        p \in Optional("published", BOOLEAN),
        h \in Optional("hasChapters", BOOLEAN) }

\* Partial<InsertStory>: every field optional.
PartialInsertStory ==
    { a @@ c @@ p @@ h :
        a \in Optional("authorId", Users),
        c \in Optional("category", Categories),
        p \in Optional("published", BOOLEAN),
        h \in Optional("hasChapters", BOOLEAN) }

\* The column defaults of the stories table.
StoryDefault(f, t) ==
    CASE f = "published" -> FALSE
      [] f = "hasChapters" -> FALSE
      [] f = "publishedAt" -> Null
      [] f = "createdAt" -> t
      [] f = "updatedAt" -> t

\* db.insert(stories).values(story): supplied fields, defaults elsewhere.
InsertStoryRow(story, t) ==
    [f \in StoryColumns |->
        IF f \in DOMAIN story THEN story[f] ELSE StoryDefault(f, t)]

\* db.update(...).set(values): the supplied columns are overwritten.
SetColumns(row, values) ==
    [f \in DOMAIN row |-> IF f \in DOMAIN values THEN values[f] ELSE row[f]]

\* The observer of back-to-back calls (below) when it follows no call.
NoMon == [phase |-> "idle"]

\* feed holds the response of the last getPublishedStories call until the
\* next operation on the store; NoFeed when there is none.
NoFeed == [category |-> Undefined, sortBy |-> Undefined, rows |-> <<>>,
           valid |-> FALSE]

createStory(story) ==
    /\ Len(stories) < MaxStories
    /\ stories' = Append(stories, InsertStoryRow(story, now))
    /\ feed' = NoFeed
    /\ mon' = NoMon
    /\ UNCHANGED <<now, likes, notifications, bookmarks, procs, others>>

\* What .returning() of an UPDATE of the story id gives, and what the
\* method returns: the row, or nothing (undefined) when no row has this
\* id.
ReturnedStory_OrThrow(op, id) ==
    [op |-> op, id |-> id, threw |-> id \notin DOMAIN stories,
     result |-> IF id \in DOMAIN stories THEN Some(id) ELSE Null]

ReturnedStory(op, id) ==
    [op |-> op, id |-> id, threw |-> FALSE,
     result |-> IF id \in DOMAIN stories THEN Some(id) ELSE Null]

updateStory(id, updates) ==
    /\ stories' = [i \in DOMAIN stories |->
                     IF i = id
                     THEN SetColumns(stories[i],
                            updates @@ [updatedAt |-> now])
                     ELSE stories[i]]
    /\ resp' = ReturnedStory("updateStory", id)
    /\ feed' = NoFeed
    /\ mon' = NoMon
    /\ UNCHANGED <<now, likes, notifications, bookmarks, procs, chapters,
                   users, drafts, marks>>

publishStory_EveryStory(id) ==
    /\ stories' = [i \in DOMAIN stories |->
                     SetColumns(stories[i],
                       [published |-> TRUE, publishedAt |-> Some(now),
                        updatedAt |-> now])]
    /\ resp' = ReturnedStory("publishStory", id)
    /\ feed' = NoFeed
    /\ mon' = NoMon
    /\ UNCHANGED <<now, likes, notifications, bookmarks, procs, chapters,
                   users, drafts, marks>>

publishStory(id) ==
    /\ stories' = [i \in DOMAIN stories |->
                     IF i = id
                     THEN SetColumns(stories[i],
                            [published |-> TRUE, publishedAt |-> Some(now),
                             updatedAt |-> now])
                     ELSE stories[i]]
    /\ resp' = ReturnedStory("publishStory", id)
    /\ feed' = NoFeed
    /\ mon' = NoMon
    /\ UNCHANGED <<now, likes, notifications, bookmarks, procs, chapters,
                   users, drafts, marks>>

enableChaptersOnStory_EveryStory(id) ==
    /\ stories' = [i \in DOMAIN stories |->
                     SetColumns(stories[i],
                       [hasChapters |-> TRUE, updatedAt |-> now])]
    /\ feed' = NoFeed
    /\ mon' = NoMon
    /\ UNCHANGED <<now, likes, notifications, bookmarks, procs, others>>

enableChaptersOnStory(id) ==
    /\ stories' = [i \in DOMAIN stories |->
                     IF i = id
                     THEN SetColumns(stories[i],
                            [hasChapters |-> TRUE, updatedAt |-> now])
                     ELSE stories[i]]
    /\ feed' = NoFeed
    /\ mon' = NoMon
    /\ UNCHANGED <<now, likes, notifications, bookmarks, procs, others>>

\* The wall clock read by new Date() and defaultNow().
Tick ==
    /\ now < MaxTime
    /\ now' = now + 1
    /\ UNCHANGED <<stories, likes, notifications, bookmarks, procs, feed, mon,
                   others>>

\* resp holds the outcome of the last user, chapter, notification or draft
\* request; NoResp when there is none.
NoResp == [op |-> "none"]

(***************************************************************************)
(* users (src/schema.ts:27-37): id is the primary key, email and username  *)
(* are unique (any number of rows may hold NULL).  The table is a function *)
(* from the ids of its rows.  firstName, lastName and profileImageUrl are  *)
(* nullable columns without constraint, as bio is, and are not carried.    *)
(***************************************************************************)
Emails == {"e1", "e2"}
Usernames == {"n1"}
Bios == {"b1"}

UserColumns == {"email", "username", "bio", "createdAt", "updatedAt"}

\* UpsertUser = typeof users.$inferInsert.  Every caller passes the id (the
\* subject of the session); a nullable column may be left out or be null.
UpsertUser ==
    { i @@ e @@ n @@ b :
        i \in Required("id", Users),
        e \in Optional("email", { Some(x) : x \in Emails }),
        n \in Optional("username", { Some(x) : x \in Usernames }),
        b \in Optional("bio", {Null} \cup { Some(x) : x \in Bios }) }

\* The column defaults of the users table.
UserDefault(f, t) ==
    CASE f = "email" -> Null
      [] f = "username" -> Null
      [] f = "bio" -> Null
      [] f = "createdAt" -> t
      [] f = "updatedAt" -> t

\* .values(userData): supplied fields, defaults elsewhere.
InsertUserRow(userData, t) ==
    [f \in UserColumns |->
        IF f \in DOMAIN userData THEN userData[f] ELSE UserDefault(f, t)]

\* set: { ...userData, updatedAt: new Date() }: a property that is left out
\* is no column of the update; the id is set to the value it has.
UserUpdate(userData, t) ==
    [f \in DOMAIN userData \ {"id"} |-> userData[f]] @@ [updatedAt |-> t]

\* The row of id after insert ... on conflict (id) do update.
UpsertedRow_Replace(userData, t) == InsertUserRow(userData, t)

UpsertedRow(userData, t) ==
    IF userData.id \in DOMAIN users
    THEN SetColumns(users[userData.id], UserUpdate(userData, t))
    ELSE InsertUserRow(userData, t)

\* The unique constraints on email and username: another row already holds
\* the (non-null) value, and the statement fails.
UniqueViolation(id, row) ==
    \E other \in DOMAIN users \ {id} :
        \/ row.email # Null /\ users[other].email = row.email
        \/ row.username # Null /\ users[other].username = row.username

\* Every user has signed in once and has not filled in a profile.
RegisteredUsers ==
    [id \in Users |-> [email |-> Null, username |-> Null, bio |-> Null,
                       createdAt |-> 1, updatedAt |-> 1]]

(***************************************************************************)
(* likes (src/schema.ts:82-87): no unique constraint on (userId, storyId). *)
(* No statement reads a like's id or createdAt, so the table is the bag of *)
(* its (userId, storyId) pairs: one copy per row.                          *)
(* notifications (src/schema.ts:89-96): the id is the index.               *)
(***************************************************************************)
LikeRow(userId, storyId) == [userId |-> userId, storyId |-> storyId]

\* The number of rows of likes with this userId and storyId.
LikesOf(userId, storyId) == CopiesIn(LikeRow(userId, storyId), likes)

\* select count(*) from likes where story_id = storyId
getLikeCount(storyId) ==
    BagCardinality([l \in { r \in BagToSet(likes) : r.storyId = storyId }
                      |-> likes[l]])

\* select * from likes where user_id = userId and story_id = storyId
\* limit 1, tested by existingLike.length > 0.
existingLike_NoStory(userId, storyId) ==
    \E l \in BagToSet(likes) : l.userId = userId

existingLike(userId, storyId) == LikesOf(userId, storyId) > 0

\* delete from likes where user_id = userId and story_id = storyId:
\* every matching row goes.
DeleteLikes_WholeStory(userId, storyId) ==
    [l \in { r \in BagToSet(likes) : r.storyId # storyId } |-> likes[l]]

DeleteLikes(userId, storyId) ==
    [l \in BagToSet(likes) \ {LikeRow(userId, storyId)} |-> likes[l]]

\* An insert that writes the likes of the story back as the one new row.
InsertLike_LastWriterWins(userId, storyId) ==
    [l \in { r \in BagToSet(likes) : r.storyId # storyId } |-> likes[l]]
      (+) SetToBag({LikeRow(userId, storyId)})

\* insert into likes (user_id, story_id) values (userId, storyId)
InsertLike(userId, storyId) ==
    likes (+) SetToBag({LikeRow(userId, storyId)})

\* if (story && story.authorId !== userId)
ShouldNotify_Always(story, userId) == story # Null

ShouldNotify_Never(story, userId) == FALSE

ShouldNotify(story, userId) ==
    story # Null /\ story[1].authorId # userId

\* select * from stories where id = id: Null when no row matches.
getStory(id) == IF id \in DOMAIN stories THEN Some(stories[id]) ELSE Null

\* .values({ userId, type, storyId }): read and createdAt take their
\* defaults.
NotificationRow_NoStory(userId, type, storyId) ==
    [userId |-> userId, type |-> type, storyId |-> Null,
     read |-> FALSE, createdAt |-> now]

NotificationRow(userId, type, storyId) ==
    [userId |-> userId, type |-> type, storyId |-> Some(storyId),
     read |-> FALSE, createdAt |-> now]

(***************************************************************************)
(* Requests in flight.  procs[p] is the activation record of the storage   *)
(* method process p is executing: its arguments, its locals and the        *)
(* statement it will issue next.  When the method returns the process is   *)
(* idle again.                                                             *)
(***************************************************************************)
IdleProc == [op |-> "idle", pc |-> "idle"]

Running(p) == procs[p].op # "idle"
Quiescent == \A p \in Procs : ~Running(p)

(***************************************************************************)
(* Observer of back-to-back calls.  mon follows one storage method call    *)
(* that ran with no statement of any other request in between ("first"),   *)
(* and the next call of the same method with the same (userId, storyId)    *)
(* when it follows immediately and also runs alone ("second").  It records *)
(* what the callers saw; it never influences the store.                    *)
(***************************************************************************)
\* A call by p starts.  before is the caller-visible state it starts from.
MonBegin(p, op, userId, storyId, arg, before) ==
    LET fresh == [phase |-> "first", op |-> op, proc |-> p,
                  userId |-> userId, storyId |-> storyId,
                  before |-> before, arg1 |-> arg]
    IN  IF ~Quiescent THEN {NoMon}
        ELSE IF /\ mon.phase = "between"
                /\ mon.op = op
                /\ mon.userId = userId
                /\ mon.storyId = storyId
             THEN {fresh, [mon EXCEPT !.phase = "second", !.proc = p] @@
                              [arg2 |-> arg]}
             ELSE {fresh}

\* A later statement of p's call.
MonStep(p) ==
    IF mon.phase \in {"first", "second"} /\ mon.proc = p THEN mon ELSE NoMon

\* p's call returns result.
MonEnd(p, result) ==
    IF mon.phase = "first" /\ mon.proc = p
    THEN [mon EXCEPT !.phase = "between"] @@ [res1 |-> result]
    ELSE IF mon.phase = "second" /\ mon.proc = p
    THEN [mon EXCEPT !.phase = "after"] @@ [res2 |-> result]
    ELSE NoMon

(***************************************************************************)
(* toggleLike(userId, storyId), src/unnamed/part_000:244-272.              *)
(***************************************************************************)
\* Notifications are never deleted: a request that may add one starts only
\* while the table has room for it.
RoomToNotify ==
    Len(notifications)
      + Cardinality({ q \in Procs : procs[q].op = "toggleLike"
                        /\ procs[q].pc \in {"insert", "getStory", "notify"} })
      < MaxNotifications

\* const existingLike = await db.select()...where(userId, storyId).limit(1)
TL_Select(p, userId, storyId) ==
    LET existing == existingLike(userId, storyId)
    IN  /\ ~Running(p)
        /\ existing \/ RoomToNotify
        /\ procs' = [procs EXCEPT ![p] =
              [op |-> "toggleLike", userId |-> userId, storyId |-> storyId,
               pc |-> IF existing THEN "delete" ELSE "insert",
               liked |-> ~existing, made |-> <<>>]]
        /\ mon' \in MonBegin(p, "toggleLike", userId, storyId, Null,
                       [count |-> getLikeCount(storyId),
                        rows |-> LikesOf(userId, storyId)])
        /\ feed' = NoFeed
        /\ UNCHANGED <<now, stories, likes, notifications, bookmarks,
                       others>>

\* await db.delete(likes).where(userId, storyId)
TL_Delete(p) ==
    /\ procs[p].op = "toggleLike" /\ procs[p].pc = "delete"
    /\ likes' = DeleteLikes(procs[p].userId, procs[p].storyId)
    /\ procs' = [procs EXCEPT ![p].pc = "count"]
    /\ mon' = MonStep(p)
    /\ feed' = NoFeed
    /\ UNCHANGED <<now, stories, notifications, bookmarks, others>>

\* What the caller of a toggleLike call that threw is left with.
Thrown(p) ==
    [op |-> "toggleLike", userId |-> procs[p].userId,
     storyId |-> procs[p].storyId, threw |-> TRUE]

\* await db.insert(likes).values({ userId, storyId }) without the foreign
\* key of story_id.
TL_Insert_NoForeignKey(p) ==
    /\ procs[p].op = "toggleLike" /\ procs[p].pc = "insert"
    /\ likes' = InsertLike(procs[p].userId, procs[p].storyId)
    /\ procs' = [procs EXCEPT ![p].pc = "getStory"]
    /\ mon' = MonStep(p)
    /\ feed' = NoFeed
    /\ UNCHANGED <<now, stories, notifications, bookmarks, others>>

\* await db.insert(likes).values({ userId, storyId }): the foreign key on
\* story_id rejects a storyId that matches no story, and the method throws.
TL_Insert(p) ==
    /\ procs[p].op = "toggleLike" /\ procs[p].pc = "insert"
    /\ IF procs[p].storyId \in DOMAIN stories
       THEN /\ likes' = InsertLike(procs[p].userId, procs[p].storyId)
            /\ procs' = [procs EXCEPT ![p].pc = "getStory"]
            /\ mon' = MonStep(p)
            /\ resp' = resp
       ELSE /\ likes' = likes
            /\ procs' = [procs EXCEPT ![p] = IdleProc]
            /\ mon' = NoMon
            /\ resp' = Thrown(p)
    /\ feed' = NoFeed
    /\ UNCHANGED <<now, stories, notifications, bookmarks, chapters, users,
                   drafts, marks>>

\* const story = await this.getStory(storyId)
TL_GetStory(p) ==
    LET story == getStory(procs[p].storyId)
    IN  /\ procs[p].op = "toggleLike" /\ procs[p].pc = "getStory"
        /\ procs' = [procs EXCEPT ![p] =
              IF ShouldNotify(story, procs[p].userId)
              THEN [procs[p] EXCEPT !.pc = "notify"] @@
                     [authorId |-> story[1].authorId]
              ELSE [procs[p] EXCEPT !.pc = "count"]]
        /\ mon' = MonStep(p)
        /\ feed' = NoFeed
        /\ UNCHANGED <<now, stories, likes, notifications, bookmarks,
                       others>>

\* await this.createNotification(story.authorId, 'like', storyId)
TL_Notify(p) ==
    /\ procs[p].op = "toggleLike" /\ procs[p].pc = "notify"
    /\ notifications' = Append(notifications,
          NotificationRow(procs[p].authorId, "like", procs[p].storyId))
    /\ procs' = [procs EXCEPT ![p].pc = "count",
                              ![p].made = Append(@, Len(notifications) + 1)]
    /\ mon' = MonStep(p)
    /\ feed' = NoFeed
    /\ UNCHANGED <<now, stories, likes, bookmarks, others>>

\* const count = await this.getLikeCount(storyId); return { liked, count }
TL_Count(p) ==
    LET result == [liked |-> procs[p].liked,
                   count |-> getLikeCount(procs[p].storyId)]
    IN  /\ procs[p].op = "toggleLike" /\ procs[p].pc = "count"
        /\ procs' = [procs EXCEPT ![p] = IdleProc]
        /\ mon' = MonEnd(p, result)
        /\ resp' = [op |-> "toggleLike", userId |-> procs[p].userId,
                    storyId |-> procs[p].storyId, threw |-> FALSE] @@ result
        /\ feed' = NoFeed
        /\ UNCHANGED <<now, stories, likes, notifications, bookmarks,
                       chapters, users, drafts, marks>>

toggleLike(p) ==
    \/ \E userId \in Users, storyId \in StoryIds : TL_Select(p, userId, storyId)
    \/ TL_Delete(p)
    \/ TL_Insert(p)
    \/ TL_GetStory(p)
    \/ TL_Notify(p)
    \/ TL_Count(p)

(***************************************************************************)
(* bookmarks (src/schema.ts:112-120): no unique constraint on (userId,     *)
(* storyId).  The id of a row is its index in the sequence; a deleted row  *)
(* leaves Null behind, so that ids are never reused.  chapterId is not     *)
(* carried.                                                                *)
(***************************************************************************)
\* POST /api/bookmarks, the one caller, passes position 0
\* (src/routes.ts:481) and the note of the request body, if any.
Positions == {0}
Notes == {Some("n1"), Some("n2")}

\* chapter_id of highlights, bookmarks and quotes references chapters.id
\* (src/schema.ts:103, 116, 126): the column is nullable, and a value that
\* is not null names a chapter row.
ChapterSlots == 1..MaxChapters
ChapterExists(id) == id \in DOMAIN chapters /\ chapters[id] # Null

\* InsertBookmark = z.infer<insertBookmarkSchema>: userId, storyId and
\* position are required, note (nullable) is optional.
InsertBookmark ==
    { u @@ s @@ q @@ n :
        u \in Required("userId", Users),
        s \in Required("storyId", StoryIds),
        q \in Required("position", Positions),
        n \in Optional("note", Notes) }

\* What a caller of the storage method may pass: any position, and the
\* chapter the reader is in.
BookmarkData ==
    { u @@ s @@ q @@ n @@ c :
        u \in Required("userId", Users),
        s \in Required("storyId", StoryIds),
        q \in Required("position", 0..MaxPosition),
        n \in Optional("note", Notes),
        c \in Optional("chapterId", ChapterSlots) }

BookmarkIds == { i \in DOMAIN bookmarks : bookmarks[i] # Null }
Bookmark(i) == bookmarks[i][1]

\* The ids of the rows where user_id = userId and story_id = storyId.
BookmarksOf(userId, storyId) ==
    { i \in BookmarkIds :
        Bookmark(i).userId = userId /\ Bookmark(i).storyId = storyId }

\* db.insert(bookmarks).values(bookmark): chapterId and note default to
\* NULL.
InsertBookmarkRow(bookmark, t) ==
    [userId |-> bookmark.userId, storyId |-> bookmark.storyId,
     chapterId |-> IF "chapterId" \in DOMAIN bookmark
                   THEN Some(bookmark.chapterId) ELSE Null,
     position |-> bookmark.position,
     note |-> IF "note" \in DOMAIN bookmark THEN bookmark.note ELSE Null,
     createdAt |-> t]

\* .set({ note: bookmark.note, createdAt: new Date() }): a property whose
\* value is undefined is no column of the update.
BookmarkUpdate(bookmark, t) ==
    (IF "note" \in DOMAIN bookmark THEN [note |-> bookmark.note] ELSE <<>>)
        @@ [createdAt |-> t]

\* Bookmarks are created without bound: a request that may insert one
\* starts only while the table has room for it.
RoomToBookmark ==
    Len(bookmarks)
      + Cardinality({ q \in Procs : procs[q].op = "createBookmark"
                        /\ procs[q].pc = "insert" })
      < MaxBookmarks

(***************************************************************************)
(* createBookmark(bookmark), src/unnamed/part_000:425-445.                 *)
(***************************************************************************)
\* const existingBookmark = await db.select()...where(userId, storyId)
\* .limit(1): without an ORDER BY, any one of the matching rows.
CB_Select(p, bookmark) ==
    LET matching == BookmarksOf(bookmark.userId, bookmark.storyId)
    IN  /\ ~Running(p)
        /\ matching # {} \/ RoomToBookmark
        /\ \E existing \in IF matching = {} THEN {Null}
                            ELSE { Some(i) : i \in matching } :
              procs' = [procs EXCEPT ![p] =
                 [op |-> "createBookmark", bookmark |-> bookmark,
                  pc |-> IF existing # Null THEN "update" ELSE "insert",
                  existingBookmark |-> existing]]
        /\ mon' \in MonBegin(p, "createBookmark", bookmark.userId,
                       bookmark.storyId, bookmark,
                       [rows |-> Cardinality(matching)])
        /\ feed' = NoFeed
        /\ UNCHANGED <<now, stories, likes, notifications, bookmarks,
                       others>>

\* await db.update(bookmarks).set(...).where(id = existingBookmark[0].id)
\* .returning(): the updated row, or nothing when the row is gone.
CB_Update(p) ==
    LET id == procs[p].existingBookmark[1]
    IN  /\ procs[p].op = "createBookmark" /\ procs[p].pc = "update"
        /\ bookmarks' = [i \in DOMAIN bookmarks |->
              IF i = id /\ bookmarks[i] # Null
              THEN Some(SetColumns(Bookmark(i),
                          BookmarkUpdate(procs[p].bookmark, now)))
              ELSE bookmarks[i]]
        /\ procs' = [procs EXCEPT ![p] = IdleProc]
        /\ mon' = MonEnd(p, IF bookmarks[id] # Null THEN Some(id) ELSE Null)
        /\ feed' = NoFeed
        /\ UNCHANGED <<now, stories, likes, notifications, others>>

\* await db.insert(bookmarks).values(bookmark).returning(): the foreign
\* keys on story_id and chapter_id reject an id that matches no row, and
\* the method throws.
CB_Insert(p) ==
    /\ procs[p].op = "createBookmark" /\ procs[p].pc = "insert"
    /\ IF /\ procs[p].bookmark.storyId \in DOMAIN stories
          /\ "chapterId" \in DOMAIN procs[p].bookmark
                => ChapterExists(procs[p].bookmark.chapterId)
       THEN /\ bookmarks' = Append(bookmarks,
                  Some(InsertBookmarkRow(procs[p].bookmark, now)))
            /\ mon' = MonEnd(p, Some(Len(bookmarks) + 1))
       ELSE /\ bookmarks' = bookmarks
            /\ mon' = NoMon
    /\ procs' = [procs EXCEPT ![p] = IdleProc]
    /\ feed' = NoFeed
    /\ UNCHANGED <<now, stories, likes, notifications, others>>

createBookmark(p) ==
    \/ \E bookmark \in InsertBookmark : CB_Select(p, bookmark)
    \/ CB_Update(p)
    \/ CB_Insert(p)

\* await db.delete(bookmarks).where(eq(bookmarks.id, id))
deleteBookmark(id) ==
    /\ id \in DOMAIN bookmarks
    /\ bookmarks' = [bookmarks EXCEPT ![id] = Null]
    /\ mon' = NoMon
    /\ feed' = NoFeed
    /\ UNCHANGED <<now, stories, likes, notifications, procs, others>>

(***************************************************************************)
(* highlights and quotes (src/schema.ts:99-110, 122-130): user_id          *)
(* references users, story_id references stories, chapter_id (nullable)    *)
(* references chapters; neither table has a unique constraint.  The text,  *)
(* the offsets, the colour and the note are not carried.  The id of a row  *)
(* is its index in the sequence; the slot of a deleted row holds Null, ids *)
(* are not reused.                                                         *)
(***************************************************************************)
\* InsertHighlight = z.infer<insertHighlightSchema>.
InsertHighlight ==
    { u @@ s @@ c :
        u \in Required("userId", Users),
        s \in Required("storyId", StoryIds),
        c \in Optional("chapterId", ChapterSlots) }

\* InsertQuote = z.infer<insertQuoteSchema>: isPublic is optional.
InsertQuote ==
    { h @@ v : h \in InsertHighlight, v \in Optional("isPublic", BOOLEAN) }

\* The row of db.insert(...).values(data): chapterId defaults to NULL.
InsertMarkRow(data, t) ==
    [userId |-> data.userId, storyId |-> data.storyId,
     chapterId |-> IF "chapterId" \in DOMAIN data
                   THEN Some(data.chapterId) ELSE Null,
     createdAt |-> t]

\* The row of db.insert(quotes).values(quote): is_public defaults to true.
InsertQuoteRow(quote, t) ==
    InsertMarkRow(quote, t) @@
      [isPublic |-> IF "isPublic" \in DOMAIN quote THEN quote.isPublic
                    ELSE TRUE]

\* The foreign keys of a highlight, a bookmark or a quote.
ReferencesExist(data) ==
    /\ data.userId \in DOMAIN users
    /\ data.storyId \in DOMAIN stories
    /\ "chapterId" \in DOMAIN data => ChapterExists(data.chapterId)

\* await db.insert(highlights).values(highlight).returning(): one INSERT,
\* with no look-up of an existing row; a foreign key that matches no row
\* rejects it, and the method throws.
createHighlight_Once(highlight) ==
    /\ Len(highlights) < MaxHighlights
    /\ IF ReferencesExist(highlight)
       THEN /\ highlights' =
                  IF \E i \in DOMAIN highlights :
                        highlights[i].userId = highlight.userId
                        /\ highlights[i].storyId = highlight.storyId
                  THEN highlights
                  ELSE Append(highlights, InsertMarkRow(highlight, now))
            /\ resp' = [op |-> "createHighlight", data |-> highlight,
                        threw |-> FALSE, id |-> Len(highlights')]
       ELSE /\ highlights' = highlights
            /\ resp' = [op |-> "createHighlight", data |-> highlight,
                        threw |-> TRUE]
    /\ feed' = NoFeed
    /\ mon' = NoMon
    /\ UNCHANGED <<now, stories, likes, notifications, bookmarks, procs,
                   chapters, users, drafts, quotes>>

createHighlight(highlight) ==
    /\ Len(highlights) < MaxHighlights
    /\ IF ReferencesExist(highlight)
       THEN /\ highlights' = Append(highlights,
                                    InsertMarkRow(highlight, now))
            /\ resp' = [op |-> "createHighlight", data |-> highlight,
                        threw |-> FALSE, id |-> Len(highlights) + 1]
       ELSE /\ highlights' = highlights
            /\ resp' = [op |-> "createHighlight", data |-> highlight,
                        threw |-> TRUE]
    /\ feed' = NoFeed
    /\ mon' = NoMon
    /\ UNCHANGED <<now, stories, likes, notifications, bookmarks, procs,
                   chapters, users, drafts, quotes>>

\* await db.insert(quotes).values(quote).returning()
createQuote(quote) ==
    /\ Len(quotes) < MaxQuotes
    /\ IF ReferencesExist(quote)
       THEN /\ quotes' = Append(quotes, InsertQuoteRow(quote, now))
            /\ resp' = [op |-> "createQuote", data |-> quote,
                        threw |-> FALSE, id |-> Len(quotes) + 1]
       ELSE /\ quotes' = quotes
            /\ resp' = [op |-> "createQuote", data |-> quote,
                        threw |-> TRUE]
    /\ feed' = NoFeed
    /\ mon' = NoMon
    /\ UNCHANGED <<now, stories, likes, notifications, bookmarks, procs,
                   chapters, users, drafts, highlights>>

\* The rows whose chapter_id is id.
ChapterReferences(id) ==
    [highlights |-> { i \in DOMAIN highlights :
                        /\ highlights[i] # Null
                        /\ highlights[i].chapterId = Some(id) },
     bookmarks |-> { i \in BookmarkIds : Bookmark(i).chapterId = Some(id) },
     quotes |-> { i \in DOMAIN quotes :
                    quotes[i] # Null /\ quotes[i].chapterId = Some(id) }]

ChapterReferenced(id) ==
    \E t \in DOMAIN ChapterReferences(id) : ChapterReferences(id)[t] # {}

(***************************************************************************)
(* The routes that delete a highlight, a bookmark or a quote,              *)
(* src/routes.ts:461-470, 503-512, 590-599.  Each is behind isAuthenticated *)
(* and is one storage call, deleteHighlight(id), deleteBookmark(id) or     *)
(* deleteQuote(id), with id = req.params.id; the handler does not read the *)
(* user of the request.  userId is the authenticated user.                 *)
(***************************************************************************)
DeleteRoutes == {"DELETE /api/highlights/:id", "DELETE /api/bookmarks/:id",
                 "DELETE /api/quotes/:id"}

\* await db.delete(table).where(eq(table.id, id))
DeleteRow(table, id) ==
    [i \in DOMAIN table |-> IF i = id THEN Null ELSE table[i]]

\* await storage.deleteX(req.params.id); res.json({ message }).
DeleteRoute(route, userId, id) ==
    /\ highlights' = IF route = "DELETE /api/highlights/:id"
                     THEN DeleteRow(highlights, id) ELSE highlights
    /\ bookmarks' = IF route = "DELETE /api/bookmarks/:id"
                    THEN DeleteRow(bookmarks, id) ELSE bookmarks
    /\ quotes' = IF route = "DELETE /api/quotes/:id"
                 THEN DeleteRow(quotes, id) ELSE quotes
    /\ resp' = [op |-> route, userId |-> userId, id |-> id, status |-> 200]
    /\ feed' = NoFeed
    /\ mon' = NoMon
    /\ UNCHANGED <<now, stories, likes, notifications, procs, chapters,
                   users, drafts>>

(***************************************************************************)
(* getPublishedStories(category, sortBy), src/unnamed/part_000:124-175.    *)
(*                                                                         *)
(* The query is a drizzle-orm select builder.  Each of its where, orderBy  *)
(* and limit methods stores its argument in the builder's configuration    *)
(* (this.config.where = where) and returns the builder: a second where()   *)
(* takes the place of the first, it is not AND-ed to it.                   *)
(***************************************************************************)
Limit == 50

CategoryArgs == {Undefined, "all"} \cup Categories
SortByArgs == {Undefined, "recent", "trending", "popular"}

\* stories LEFT JOIN likes ON stories.id = likes.story_id, for one story:
\* one joined row per matching like, and one joined row with a NULL like
\* when no like matches.  (The join with users adds the author's columns:
\* the author exists, by the foreign key.)
LeftJoinLikes_Inner(id) ==
    [j \in { Some(l) : l \in { r \in BagToSet(likes) : r.storyId = id } }
        |-> likes[j[1]]]

LeftJoinLikes(id) ==
    LET matching == { l \in BagToSet(likes) : l.storyId = id }
    IN  IF matching = {} THEN SetToBag({Null})
        ELSE [j \in { Some(l) : l \in matching } |-> likes[j[1]]]

\* count(likes.id) over the joined rows of a group: NULLs are not counted.
CountLikeIds(joined) ==
    BagCardinality([j \in { x \in BagToSet(joined) : x # Null }
                      |-> joined[j]])

\* groupBy(stories.id, users.id): one group per story that has joined rows.
Groups == { id \in DOMAIN stories : LeftJoinLikes(id) # EmptyBag }

\* The selected columns of a group.
FeedRow(id) ==
    [id |-> id,
     category |-> stories[id].category,
     authorId |-> stories[id].authorId,
     published |-> stories[id].published,
     publishedAt |-> stories[id].publishedAt,
     createdAt |-> stories[id].createdAt,
     updatedAt |-> stories[id].updatedAt,
     likeCount |-> CountLikeIds(LeftJoinLikes(id))]

baseQuery == [where |-> <<>>, orderBy |-> <<>>, limit |-> Null]

\* query.where(condition)
Where(query, condition) == [query EXCEPT !.where = <<condition>>]

\* query.orderBy(...columns), every column under desc().
OrderBy(query, columns) == [query EXCEPT !.orderBy = columns]

\* eq(stories.published, true), eq(stories.category, category)
Satisfies(row, condition) ==
    CASE condition[1] = "published" -> row.published = TRUE
      [] condition[1] = "category" -> row.category = condition[2]

\* if (category && category !== 'all')
HasCategoryFilter_NoSentinel(category) == category # Undefined

HasCategoryFilter(category) == category # Undefined /\ category # "all"

WithFilters(category) ==
    LET query == Where(baseQuery, <<"published">>)
    IN  IF HasCategoryFilter(category)
        THEN Where(query, <<"category", category>>)
        ELSE query

\* if (sortBy === 'recent') ... else if (sortBy === 'trending') ... else ...
SortColumns_RecentByDefault(sortBy) ==
    IF sortBy = "trending" THEN <<"likeCount", "publishedAt">>
    ELSE <<"publishedAt">>

SortColumns_TrendingOnly(sortBy) == <<"likeCount", "publishedAt">>

SortColumns(sortBy) ==
    IF sortBy = "recent" THEN <<"publishedAt">>
    ELSE IF sortBy = "trending" THEN <<"likeCount", "publishedAt">>
    ELSE <<"likeCount", "publishedAt">>

\* ORDER BY ... DESC of PostgreSQL: larger values first, NULL before every
\* value (NULLS FIRST is the default of DESC).
DescBefore(a, b, column) ==
    IF column = "likeCount" THEN a.likeCount > b.likeCount
    ELSE \/ a.publishedAt = Null /\ b.publishedAt # Null
         \/ /\ a.publishedAt # Null /\ b.publishedAt # Null
            /\ a.publishedAt[1] > b.publishedAt[1]

RECURSIVE SortsBefore(_, _, _)
\* a must come before b under the ORDER BY columns.
SortsBefore(a, b, columns) ==
    IF columns = <<>> THEN FALSE
    ELSE \/ DescBefore(a, b, Head(columns))
         \/ /\ ~DescBefore(b, a, Head(columns))
            /\ SortsBefore(a, b, Tail(columns))

RECURSIVE Permuted(_)
\* The sequences of the elements of rows, each once, in every order.
Permuted(rows) ==
    IF rows = {} THEN {<<>>}
    ELSE UNION { { <<first>> \o rest : rest \in Permuted(rows \ {first}) } :
                 first \in rows }

RECURSIVE InRankOrder(_, _, _)
\* The sequences of the rows of ranked, a set of <<rank, row>> with ranks
\* in k..n, by ascending rank; rows of the same rank in every order.
InRankOrder(ranked, k, n) ==
    IF k > n THEN {<<>>}
    ELSE { these \o rest :
             these \in Permuted({ x[2] : x \in { y \in ranked : y[1] = k } }),
             rest \in InRankOrder(ranked, k + 1, n) }

\* The orders in which the store may return the rows of ids: a row comes
\* after the rows that must come before it under the ORDER BY columns, and
\* rows that compare equal come in any order.  The rank of a row is the
\* number of rows that must come before it.
Orderings(ids, columns) ==
    LET rows == { FeedRow(id) : id \in ids }
        ranked == { <<Cardinality({ q \in rows :
                                     SortsBefore(q, r, columns) }), r>> :
                    r \in rows }
    IN  InRankOrder(ranked, 0, Cardinality(ids))

\* .limit(n)
FirstRows_OneMore(rows, n) ==
    SubSeq(rows, 1, IF Len(rows) < n + 1 THEN Len(rows) ELSE n + 1)

FirstRows(rows, n) == SubSeq(rows, 1, IF Len(rows) < n THEN Len(rows) ELSE n)

\* The results the store may give for the query.
Results(query) ==
    LET ids == { id \in Groups :
                   \A k \in DOMAIN query.where :
                       Satisfies(FeedRow(id), query.where[k]) }
    IN  { FirstRows(rows, query.limit[1]) :
            rows \in Orderings(ids, query.orderBy) }

getPublishedStories(category, sortBy) ==
    LET query == [OrderBy(WithFilters(category), SortColumns(sortBy))
                    EXCEPT !.limit = Some(Limit)]
    IN  /\ ~feed.valid
        /\ \E results \in Results(query) :
              feed' = [category |-> category, sortBy |-> sortBy,
                       rows |-> results, valid |-> TRUE]
        /\ mon' = NoMon
        /\ UNCHANGED <<now, stories, likes, notifications, bookmarks, procs,
                       others>>

(***************************************************************************)
(* Notification updates, src/unnamed/part_000:400-405.  (The list request  *)
(* GET /api/notifications only selects.)                                   *)
(***************************************************************************)
\* PUT /api/notifications/:id/read: markNotificationRead(id), whoever the
\* caller is.
markNotificationRead(id) ==
    /\ id \in DOMAIN notifications
    /\ notifications' = [notifications EXCEPT ![id].read = TRUE]
    /\ resp' = [op |-> "markNotificationRead"]
    /\ feed' = NoFeed
    /\ mon' = NoMon
    /\ UNCHANGED <<now, stories, likes, bookmarks, procs, chapters, users,
                   drafts, marks>>

(***************************************************************************)
(* upsertUser(userData), src/unnamed/part_000:78-91: one statement.        *)
(***************************************************************************)
\* A single-statement call returns result: mon follows it, and the call
\* with the same argument that comes right after it.
MonCall(op, arg, result) ==
    IF mon.phase = "between" /\ mon.op = op /\ mon.arg1 = arg
    THEN [phase |-> "after", op |-> op, arg1 |-> arg, res1 |-> mon.res1,
          res2 |-> result]
    ELSE [phase |-> "between", op |-> op, arg1 |-> arg, res1 |-> result]

upsertUser(userData) ==
    LET row == UpsertedRow(userData, now)
    IN  /\ IF UniqueViolation(userData.id, row)
           THEN /\ users' = users
                /\ resp' = [op |-> "upsertUser", userData |-> userData,
                            threw |-> TRUE]
                /\ mon' = NoMon
           ELSE /\ users' = (userData.id :> row) @@ users
                /\ resp' = [op |-> "upsertUser", userData |-> userData,
                            threw |-> FALSE,
                            user |-> [id |-> userData.id] @@ row]
                /\ mon' = MonCall("upsertUser", userData, row)
        /\ feed' = NoFeed
        /\ UNCHANGED <<now, stories, likes, notifications, bookmarks, procs,
                       chapters, drafts, marks>>

(***************************************************************************)
(* chapters (src/schema.ts:55-66): story_id references stories; there is   *)
(* no unique constraint on (storyId, chapterNumber).  The id of a row is   *)
(* its index in the sequence; a deleted row leaves Null behind.            *)
(***************************************************************************)
ChapterNumbers == 1..MaxChapters

ChapterColumns == {"storyId", "chapterNumber", "published", "publishedAt",
                   "createdAt", "updatedAt"}

\* InsertChapter = z.infer<insertChapterSchema>: the chapters columns
\* without id, createdAt, updatedAt and publishedAt.  storyId and
\* chapterNumber are required, published is optional.
InsertChapter ==
    { s @@ n @@ p :
        s \in Required("storyId", StoryIds),
        n \in Required("chapterNumber", ChapterNumbers),
        p \in Optional("published", BOOLEAN) }

\* The column defaults of the chapters table.
ChapterDefault(f, t) ==
    CASE f = "published" -> FALSE
      [] f = "publishedAt" -> Null
      [] f = "createdAt" -> t
      [] f = "updatedAt" -> t

InsertChapterRow(chapter, t) ==
    [f \in ChapterColumns |->
        IF f \in DOMAIN chapter THEN chapter[f] ELSE ChapterDefault(f, t)]

ChapterIds == { i \in DOMAIN chapters : chapters[i] # Null }
Chapter(i) == chapters[i][1]

\* await db.insert(chapters).values(chapter).returning(): the foreign key
\* on story_id rejects a storyId that matches no story, and the method
\* throws.
createChapter(chapter) ==
    /\ Len(chapters) < MaxChapters
    /\ IF chapter.storyId \in DOMAIN stories
       THEN /\ chapters' = Append(chapters,
                  Some(InsertChapterRow(chapter, now)))
            /\ resp' = [op |-> "createChapter", threw |-> FALSE,
                        id |-> Len(chapters) + 1]
       ELSE /\ chapters' = chapters
            /\ resp' = [op |-> "createChapter", threw |-> TRUE]
    /\ feed' = NoFeed
    /\ mon' = NoMon
    /\ UNCHANGED <<now, stories, likes, notifications, bookmarks, procs,
                   users, drafts, marks>>

\* Partial<InsertChapter>, and the body of PUT /api/chapters/:id after
\* insertChapterSchema.partial().parse: every field optional.
PartialInsertChapter ==
    { s @@ n @@ p :
        s \in Optional("storyId", StoryIds),
        n \in Optional("chapterNumber", ChapterNumbers),
        p \in Optional("published", BOOLEAN) }

\* What .returning() of an UPDATE of the row id gives: the row, or nothing
\* when no row has this id.
ReturnedChapter(id) == IF ChapterExists(id) THEN Some(id) ELSE Null

\* db.update(chapters).set({ ...updates, updatedAt: new Date() })
\* .where(eq(chapters.id, id)).returning(): the foreign key on story_id
\* rejects a storyId that matches no story when a row is updated.
updateChapter(id, updates) ==
    /\ IF ChapterExists(id) /\ "storyId" \in DOMAIN updates
          /\ updates.storyId \notin DOMAIN stories
       THEN /\ chapters' = chapters
            /\ resp' = [op |-> "updateChapter", id |-> id, threw |-> TRUE]
       ELSE /\ chapters' = [i \in DOMAIN chapters |->
                  IF i = id /\ chapters[i] # Null
                  THEN Some(SetColumns(Chapter(i),
                              updates @@ [updatedAt |-> now]))
                  ELSE chapters[i]]
            /\ resp' = [op |-> "updateChapter", id |-> id, threw |-> FALSE,
                        result |-> ReturnedChapter(id)]
    /\ feed' = NoFeed
    /\ mon' = NoMon
    /\ UNCHANGED <<now, stories, likes, notifications, bookmarks, procs,
                   users, drafts, marks>>

\* db.update(chapters).set({ published: true, publishedAt: new Date(),
\* updatedAt: new Date() }).where(eq(chapters.id, id)).returning()
publishChapter(id) ==
    /\ chapters' = [i \in DOMAIN chapters |->
          IF i = id /\ chapters[i] # Null
          THEN Some(SetColumns(Chapter(i),
                      [published |-> TRUE, publishedAt |-> Some(now),
                       updatedAt |-> now]))
          ELSE chapters[i]]
    /\ resp' = [op |-> "publishChapter", id |-> id, threw |-> FALSE,
                result |-> ReturnedChapter(id)]
    /\ feed' = NoFeed
    /\ mon' = NoMon
    /\ UNCHANGED <<now, stories, likes, notifications, bookmarks, procs,
                   users, drafts, marks>>

\* await db.delete(chapters).where(eq(chapters.id, id)): the method returns
\* nothing.  The foreign keys of highlights, bookmarks and quotes on
\* chapter_id are declared without an ON DELETE action, so the store
\* rejects the deletion of a chapter that one of their rows names, and the
\* method throws.
deleteChapter(id) ==
    /\ IF ChapterExists(id) /\ ChapterReferenced(id)
       THEN /\ chapters' = chapters
            /\ resp' = [op |-> "deleteChapter", id |-> id, threw |-> TRUE]
       ELSE /\ chapters' = [i \in DOMAIN chapters |->
                               IF i = id THEN Null ELSE chapters[i]]
            /\ resp' = [op |-> "deleteChapter", id |-> id, threw |-> FALSE,
                        result |-> Null]
    /\ feed' = NoFeed
    /\ mon' = NoMon
    /\ UNCHANGED <<now, stories, likes, notifications, bookmarks, procs,
                   users, drafts, marks>>

\* .orderBy(chapters.chapterNumber): the orders in which the store may
\* return the rows of ids, ascending by chapterNumber; rows with the same
\* chapterNumber come in any order.
ChapterOrderings(ids) ==
    { o \in [1..Cardinality(ids) -> ids] :
        /\ \A i, j \in DOMAIN o : i # j => o[i] # o[j]
        /\ \A i, j \in DOMAIN o :
              i < j => Chapter(o[i]).chapterNumber
                         <= Chapter(o[j]).chapterNumber }

\* The chapter as the caller receives it.
ChapterRow(i) == [id |-> i] @@ Chapter(i)

\* db.select().from(chapters).where(eq(chapters.storyId, storyId))
\* .orderBy(chapters.chapterNumber).  One read per store content: the
\* response stands until the next write.
getStoryChapters(storyId) ==
    LET ids == { i \in ChapterIds : Chapter(i).storyId = storyId }
    IN  /\ resp.op # "getStoryChapters"
        /\ \E o \in ChapterOrderings(ids) :
              resp' = [op |-> "getStoryChapters", storyId |-> storyId,
                       rows |-> [i \in DOMAIN o |-> ChapterRow(o[i])]]
        /\ mon' = NoMon
        /\ UNCHANGED <<now, stories, likes, notifications, bookmarks, procs,
                       feed, chapters, users, drafts, marks>>

(***************************************************************************)
(* drafts (src/schema.ts:68-80): author_id references users; title, as     *)
(* content, category and the other columns of the text, is nullable.  The  *)
(* id of a row is its index in the sequence; a deleted row leaves Null     *)
(* behind.                                                                 *)
(***************************************************************************)
Titles == {"t1"}
DraftSlots == 1..MaxDrafts

DraftColumns == {"authorId", "title", "createdAt", "updatedAt"}

\* Partial<InsertDraft>, and the body of a request: every field optional.
PartialInsertDraft ==
    { a @@ t :
        a \in Optional("authorId", Users),
        t \in Optional("title", { Some(x) : x \in Titles }) }

\* The column defaults of the drafts table.
DraftDefault(f, t) ==
    CASE f = "title" -> Null
      [] f = "createdAt" -> t
      [] f = "updatedAt" -> t

\* db.insert(drafts).values(draft): supplied fields, defaults elsewhere.
InsertDraftRow(draft, t) ==
    [f \in DraftColumns |->
        IF f \in DOMAIN draft THEN draft[f] ELSE DraftDefault(f, t)]

DraftIds == { i \in DOMAIN drafts : drafts[i] # Null }
Draft(i) == drafts[i][1]

\* select * from drafts where id = id: Null when no row matches.
getDraft(id) == IF id \in DraftIds THEN drafts[id] ELSE Null

\* .where(eq(drafts.authorId, authorId)).orderBy(desc(drafts.updatedAt)):
\* the orders in which the store may return the drafts of authorId; rows
\* updated at the same time come in any order.
getDraftsByAuthor(authorId) ==
    LET ids == { i \in DraftIds : Draft(i).authorId = authorId }
    IN  { [k \in DOMAIN o |-> [id |-> o[k]] @@ Draft(o[k])] :
            o \in { o \in [1..Cardinality(ids) -> ids] :
                      /\ \A i, j \in DOMAIN o : i # j => o[i] # o[j]
                      /\ \A i, j \in DOMAIN o :
                            i < j => Draft(o[i]).updatedAt
                                       >= Draft(o[j]).updatedAt } }

\* if (!draft || draft.authorId !== userId) return res.status(404)
IsAuthorOfDraft_Any(draft, userId) == draft # Null

IsAuthorOfDraft(draft, userId) ==
    draft # Null /\ draft[1].authorId = userId

\* The outcome of a draft request of userId.
DraftResponse(route, userId, id, status) ==
    [op |-> route, userId |-> userId, id |-> id, status |-> status]

\* A read request is answered once per store content: its response stands
\* until the next write request.
NoDraftRead == resp.op \notin {"GET /api/drafts", "GET /api/drafts/:id"}

\* GET /api/drafts as userId.
GET_drafts(userId) ==
    /\ NoDraftRead
    /\ \E rows \in getDraftsByAuthor(userId) :
          resp' = DraftResponse("GET /api/drafts", userId, Null, 200)
                    @@ [rows |-> rows]
    /\ UNCHANGED <<now, stories, likes, notifications, bookmarks, procs, feed,
                   mon, chapters, users, drafts, marks>>

\* GET /api/drafts/:id as userId.
GET_drafts_id(userId, id) ==
    LET draft == getDraft(id)
    IN  /\ NoDraftRead
        /\ resp' = IF IsAuthorOfDraft(draft, userId)
                   THEN DraftResponse("GET /api/drafts/:id", userId, id, 200)
                          @@ [draft |-> draft[1]]
                   ELSE DraftResponse("GET /api/drafts/:id", userId, id, 404)
        /\ UNCHANGED <<now, stories, likes, notifications, bookmarks, procs,
                       feed, mon, chapters, users, drafts, marks>>

\* POST /api/drafts as userId: createDraft({ ...req.body, authorId: userId }).
POST_drafts(userId, body) ==
    /\ Len(drafts) < MaxDrafts
    /\ drafts' = Append(drafts,
          Some(InsertDraftRow([authorId |-> userId] @@ body, now)))
    /\ resp' = DraftResponse("POST /api/drafts", userId, Len(drafts) + 1, 201)
    /\ feed' = NoFeed
    /\ mon' = NoMon
    /\ UNCHANGED <<now, stories, likes, notifications, bookmarks, procs,
                   chapters, users, marks>>

\* PUT and DELETE /api/drafts/:id as userId, first statement:
\* const draft = await storage.getDraft(req.params.id), and the 404 when the
\* draft is missing or of another author.
DraftWrite_Get(p, route, userId, id, body) ==
    LET draft == getDraft(id)
    IN  /\ ~Running(p)
        /\ IF IsAuthorOfDraft(draft, userId)
           THEN /\ procs' = [procs EXCEPT ![p] =
                     [op |-> route, pc |-> "write", userId |-> userId,
                      id |-> id, body |-> body, draft |-> draft[1]]]
                /\ resp' = resp
           ELSE /\ procs' = procs
                /\ resp' = DraftResponse(route, userId, id, 404)
        /\ feed' = NoFeed
        /\ mon' = NoMon
        /\ UNCHANGED <<now, stories, likes, notifications, bookmarks, chapters,
                       users, drafts, marks>>

\* PUT /api/drafts/:id, second statement: updateDraft(id, updates) with
\* updates = insertDraftSchema.partial().parse(req.body), which sets
\* { ...updates, updatedAt: new Date() } where id matches.
PUT_drafts_id_Update(p) ==
    /\ procs[p].op = "PUT /api/drafts/:id" /\ procs[p].pc = "write"
    /\ drafts' = [i \in DOMAIN drafts |->
          IF i = procs[p].id /\ drafts[i] # Null
          THEN Some(SetColumns(Draft(i),
                      procs[p].body @@ [updatedAt |-> now]))
          ELSE drafts[i]]
    /\ resp' = DraftResponse(procs[p].op, procs[p].userId, procs[p].id, 200)
    /\ procs' = [procs EXCEPT ![p] = IdleProc]
    /\ feed' = NoFeed
    /\ mon' = NoMon
    /\ UNCHANGED <<now, stories, likes, notifications, bookmarks, chapters,
                   users, marks>>

\* DELETE /api/drafts/:id, second statement: deleteDraft(id).
DELETE_drafts_id_Delete(p) ==
    /\ procs[p].op = "DELETE /api/drafts/:id" /\ procs[p].pc = "write"
    /\ drafts' = [i \in DOMAIN drafts |->
          IF i = procs[p].id THEN Null ELSE drafts[i]]
    /\ resp' = DraftResponse(procs[p].op, procs[p].userId, procs[p].id, 204)
    /\ procs' = [procs EXCEPT ![p] = IdleProc]
    /\ feed' = NoFeed
    /\ mon' = NoMon
    /\ UNCHANGED <<now, stories, likes, notifications, bookmarks, chapters,
                   users, marks>>

PUT_drafts_id(p) ==
    \/ \E userId \in Users, id \in DraftSlots, body \in PartialInsertDraft :
          DraftWrite_Get(p, "PUT /api/drafts/:id", userId, id, body)
    \/ PUT_drafts_id_Update(p)

DELETE_drafts_id(p) ==
    \/ \E userId \in Users, id \in DraftSlots :
          DraftWrite_Get(p, "DELETE /api/drafts/:id", userId, id, <<>>)
    \/ DELETE_drafts_id_Delete(p)

(***************************************************************************)
(* The storage methods called with an id, as a caller of the store sees    *)
(* them: what they return and whether they throw.                          *)
(***************************************************************************)
\* select * from chapters where id = id: Null when no row matches.
getChapter(id) == IF ChapterExists(id) THEN Some(Chapter(id)) ELSE Null

\* An id that no user has.
NoUser == "u0"

\* select * from users where id = id: Null when no row matches.
getUser(id) == IF id \in DOMAIN users THEN Some(users[id]) ELSE Null

\* const [row] = await db.select().from(table).where(eq(table.id, id));
\* return row: the store is read, and row is undefined when the result is
\* empty.
Get(op, id) ==
    /\ resp' = [op |-> op, id |-> id, threw |-> FALSE,
                result |-> CASE op = "getStory" -> getStory(id)
                             [] op = "getChapter" -> getChapter(id)
                             [] op = "getDraft" -> getDraft(id)
                             [] op = "getUser" -> getUser(id)]
    /\ UNCHANGED <<now, stories, likes, notifications, bookmarks, procs,
                   feed, mon, chapters, users, drafts, marks>>

\* db.update(drafts).set({ ...updates, updatedAt: new Date() })
\* .where(eq(drafts.id, id)).returning(): the updated row, or nothing.  The
\* foreign key on author_id rejects an authorId that matches no user when
\* a row is updated.
updateDraft(id, updates) ==
    /\ IF id \in DraftIds /\ "authorId" \in DOMAIN updates
          /\ updates.authorId \notin DOMAIN users
       THEN /\ drafts' = drafts
            /\ resp' = [op |-> "updateDraft", id |-> id, threw |-> TRUE]
       ELSE /\ drafts' = [i \in DOMAIN drafts |->
                  IF i = id /\ drafts[i] # Null
                  THEN Some(SetColumns(Draft(i),
                              updates @@ [updatedAt |-> now]))
                  ELSE drafts[i]]
            /\ resp' = [op |-> "updateDraft", id |-> id, threw |-> FALSE,
                        result |-> IF id \in DraftIds THEN Some(id)
                                   ELSE Null]
    /\ feed' = NoFeed
    /\ mon' = NoMon
    /\ UNCHANGED <<now, stories, likes, notifications, bookmarks, procs,
                   chapters, users, marks>>

\* await db.delete(drafts).where(eq(drafts.id, id)): the method returns
\* nothing.
deleteDraft(id) ==
    /\ drafts' = [i \in DOMAIN drafts |->
                    IF i = id THEN Null ELSE drafts[i]]
    /\ resp' = [op |-> "deleteDraft", id |-> id, threw |-> FALSE,
                result |-> Null]
    /\ feed' = NoFeed
    /\ mon' = NoMon
    /\ UNCHANGED <<now, stories, likes, notifications, bookmarks, procs,
                   chapters, users, marks>>

(***************************************************************************)
(* The routes that write a story or its chapters, src/routes.ts:103-161,   *)
(* 256-283, 309-377.  Each handler is a sequence of awaited storage calls; *)
(* a request runs them one at a time and other requests run in between.    *)
(* userId is req.user.claims.sub, id is req.params.id.                     *)
(***************************************************************************)
StoryRoutes == {"PUT /api/stories/:id", "POST /api/stories/:id/publish",
                "PUT /api/stories/:id/enable-chapters",
                "POST /api/stories/:id/chapters"}

ChapterRoutes == {"PUT /api/chapters/:id", "DELETE /api/chapters/:id",
                  "POST /api/chapters/:id/publish"}

\* story.authorId !== userId, on the row a getStory call returned.
IsAuthorOfStory(story, userId) == story # Null /\ story[1].authorId = userId

\* db.update(stories).set(values).where(eq(stories.id, id))
StoriesSet(id, values) ==
    [i \in DOMAIN stories |->
        IF i = id THEN SetColumns(stories[i], values) ELSE stories[i]]

\* db.update(chapters).set(values).where(eq(chapters.id, id))
ChaptersSet(id, values) ==
    [i \in DOMAIN chapters |->
        IF i = id /\ chapters[i] # Null
        THEN Some(SetColumns(Chapter(i), values)) ELSE chapters[i]]

\* res.status(status).json(...), the end of a request; resp is NoResp
\* while the request runs.
RouteResponse(route, status) == [op |-> route, status |-> status]

\* The variables no route of this section writes.
RouteFrame ==
    /\ feed' = NoFeed
    /\ mon' = NoMon
    /\ UNCHANGED <<now, likes, notifications, bookmarks, users, drafts, marks>>

Respond(p, status) ==
    /\ resp' = RouteResponse(procs[p].op, status)
    /\ procs' = [procs EXCEPT ![p] = IdleProc]

\* The four routes on /api/stories/:id, first statement: const story =
\* await storage.getStory(req.params.id), then the ownership check.  The
\* enable-chapters route answers 404 for a missing story and 403 for a
\* story of another author, the other three answer 404 for both.
StoryRoute_Get(p, route, userId, id, body) ==
    LET story == getStory(id)
    IN  /\ ~Running(p)
        /\ IF IsAuthorOfStory(story, userId)
           THEN /\ procs' = [procs EXCEPT ![p] =
                     [op |-> route, pc |-> "write", userId |-> userId,
                      id |-> id, body |-> body]]
                /\ resp' = NoResp
           ELSE /\ procs' = procs
                /\ resp' = RouteResponse(route,
                      IF route = "PUT /api/stories/:id/enable-chapters"
                         /\ story # Null
                      THEN 403 ELSE 404)
        /\ RouteFrame
        /\ UNCHANGED <<stories, chapters>>

\* PUT /api/stories/:id: updateStory(id, updates) with updates =
\* insertStorySchema.partial().parse(req.body).
PUT_stories_id_Update(p) ==
    /\ procs[p].op = "PUT /api/stories/:id" /\ procs[p].pc = "write"
    /\ stories' = StoriesSet(procs[p].id,
                             procs[p].body @@ [updatedAt |-> now])
    /\ Respond(p, 200)
    /\ RouteFrame
    /\ UNCHANGED chapters

\* POST /api/stories/:id/publish: publishStory(id).
POST_stories_id_publish_Publish(p) ==
    /\ procs[p].op = "POST /api/stories/:id/publish"
    /\ procs[p].pc = "write"
    /\ stories' = StoriesSet(procs[p].id,
          [published |-> TRUE, publishedAt |-> Some(now),
           updatedAt |-> now])
    /\ Respond(p, 200)
    /\ RouteFrame
    /\ UNCHANGED chapters

\* PUT /api/stories/:id/enable-chapters: enableChaptersOnStory(id).
PUT_stories_id_enable_chapters_Enable(p) ==
    /\ procs[p].op = "PUT /api/stories/:id/enable-chapters"
    /\ procs[p].pc = "write"
    /\ stories' = StoriesSet(procs[p].id,
                             [hasChapters |-> TRUE, updatedAt |-> now])
    /\ Respond(p, 200)
    /\ RouteFrame
    /\ UNCHANGED chapters

\* POST /api/stories/:id/chapters, second statement: createChapter of
\* insertChapterSchema.parse({ ...req.body, storyId: req.params.id }).  A
\* rejected insert throws, and the handler answers 500.
POST_stories_id_chapters_Create(p) ==
    LET chapterData == [storyId |-> procs[p].id] @@ procs[p].body
    IN  /\ procs[p].op = "POST /api/stories/:id/chapters"
        /\ procs[p].pc = "write"
        /\ Len(chapters) < MaxChapters
        /\ IF chapterData.storyId \in DOMAIN stories
           THEN /\ chapters' = Append(chapters,
                      Some(InsertChapterRow(chapterData, now)))
                /\ procs' = [procs EXCEPT ![p].pc = "flag"]
                /\ resp' = resp
           ELSE /\ chapters' = chapters
                /\ Respond(p, 500)
        /\ RouteFrame
        /\ UNCHANGED stories

\* POST /api/stories/:id/chapters, third statement:
\* updateStory(req.params.id, { hasChapters: true }).
POST_stories_id_chapters_Flag(p) ==
    /\ procs[p].op = "POST /api/stories/:id/chapters"
    /\ procs[p].pc = "flag"
    /\ stories' = StoriesSet(procs[p].id,
                             [hasChapters |-> TRUE, updatedAt |-> now])
    /\ Respond(p, 201)
    /\ RouteFrame
    /\ UNCHANGED chapters

\* The three routes on /api/chapters/:id, first statement: const chapter =
\* await storage.getChapter(req.params.id), and the 404 without it.
ChapterRoute_GetChapter(p, route, userId, id, body) ==
    LET chapter == getChapter(id)
    IN  /\ ~Running(p)
        /\ IF chapter # Null
           THEN /\ procs' = [procs EXCEPT ![p] =
                     [op |-> route, pc |-> "story", userId |-> userId,
                      id |-> id, body |-> body,
                      storyId |-> chapter[1].storyId]]
                /\ resp' = NoResp
           ELSE /\ procs' = procs
                /\ resp' = RouteResponse(route, 404)
        /\ RouteFrame
        /\ UNCHANGED <<stories, chapters>>

\* Second statement: const story = await storage.getStory(chapter.storyId),
\* and the 403 unless the story is of the user.
ChapterRoute_GetStory(p) ==
    /\ procs[p].op \in ChapterRoutes /\ procs[p].pc = "story"
    /\ IF IsAuthorOfStory(getStory(procs[p].storyId), procs[p].userId)
       THEN /\ procs' = [procs EXCEPT ![p].pc = "write"]
            /\ resp' = resp
       ELSE Respond(p, 403)
    /\ RouteFrame
    /\ UNCHANGED <<stories, chapters>>

\* PUT /api/chapters/:id, third statement: updateChapter(id, updates) with
\* updates = insertChapterSchema.partial().parse(req.body).
PUT_chapters_id_Update(p) ==
    /\ procs[p].op = "PUT /api/chapters/:id" /\ procs[p].pc = "write"
    /\ IF ChapterExists(procs[p].id) /\ "storyId" \in DOMAIN procs[p].body
          /\ procs[p].body.storyId \notin DOMAIN stories
       THEN /\ chapters' = chapters
            /\ Respond(p, 500)
       ELSE /\ chapters' = ChaptersSet(procs[p].id,
                              procs[p].body @@ [updatedAt |-> now])
            /\ Respond(p, 200)
    /\ RouteFrame
    /\ UNCHANGED stories

\* DELETE /api/chapters/:id, third statement: deleteChapter(id).
DELETE_chapters_id_Delete(p) ==
    /\ procs[p].op = "DELETE /api/chapters/:id" /\ procs[p].pc = "write"
    /\ IF ChapterExists(procs[p].id) /\ ChapterReferenced(procs[p].id)
       THEN /\ chapters' = chapters
            /\ Respond(p, 500)
       ELSE /\ chapters' = [i \in DOMAIN chapters |->
                               IF i = procs[p].id THEN Null ELSE chapters[i]]
            /\ Respond(p, 204)
    /\ RouteFrame
    /\ UNCHANGED stories

\* POST /api/chapters/:id/publish, third statement: publishChapter(id).
POST_chapters_id_publish_Publish(p) ==
    /\ procs[p].op = "POST /api/chapters/:id/publish"
    /\ procs[p].pc = "write"
    /\ chapters' = ChaptersSet(procs[p].id,
          [published |-> TRUE, publishedAt |-> Some(now),
           updatedAt |-> now])
    /\ Respond(p, 200)
    /\ RouteFrame
    /\ UNCHANGED stories

(***************************************************************************)
(* The GET routes of stories, chapters, likes and quotes, src/routes.ts.   *)
(* The application registers its routes with app.get(path, ...handlers) in *)
(* the order of the file; a request goes to the first registered route     *)
(* whose path matches, and no handler of these routes passes the request   *)
(* on (none calls next()).  A path is the sequence of its segments after   *)
(* /api; a segment ":name" of a route matches any one segment.  The GET    *)
(* routes that are not listed begin with other segments.                   *)
(***************************************************************************)
\* The caller of a request without a session.  Such a request has no
\* req.user: on a route behind isAuthenticated (imported from ./replitAuth)
\* it is turned away by the middleware (401) or, if it came through, the
\* handler throws at req.user.claims.sub and answers 500.
Anonymous == "anonymous"
Callers == Users \cup {Anonymous}

\* The text of the id of a row in a URL, and the id that a text names (0,
\* the id of no row, when it names none).
IdText == <<"1", "2", "3", "4">>
Segment(id) == IdText[id]
RowId(text) ==
    IF \E i \in DOMAIN IdText : IdText[i] = text
    THEN CHOOSE i \in DOMAIN IdText : IdText[i] = text
    ELSE 0

Lit(text) == [lit |-> text]
Param(name) == [param |-> name]

\* The routes in registration order.
GetRoutes ==
    << [name |-> "GET /api/stories", path |-> <<Lit("stories")>>],
       [name |-> "GET /api/stories/:category/:sortBy",
        path |-> <<Lit("stories"), Param("category"), Param("sortBy")>>],
       [name |-> "GET /api/stories/:id",
        path |-> <<Lit("stories"), Param("id")>>],
       [name |-> "GET /api/stories/:id/chapters",
        path |-> <<Lit("stories"), Param("id"), Lit("chapters")>>],
       [name |-> "GET /api/chapters/:id",
        path |-> <<Lit("chapters"), Param("id")>>],
       [name |-> "GET /api/stories/:id/likes",
        path |-> <<Lit("stories"), Param("id"), Lit("likes")>>],
       [name |-> "GET /api/quotes/public",
        path |-> <<Lit("quotes"), Lit("public")>>],
       [name |-> "GET /api/users/:id/stories",
        path |-> <<Lit("users"), Param("id"), Lit("stories")>>] >>

\* The route path pattern matches the request path.
Matches(pattern, path) ==
    /\ Len(pattern) = Len(path)
    /\ \A i \in DOMAIN pattern :
          "param" \in DOMAIN pattern[i] \/ pattern[i].lit = path[i]

\* req.params of a request that the route pattern matches.
Params(pattern, path) ==
    [name \in { pattern[i].param :
                  i \in { j \in DOMAIN pattern :
                            "param" \in DOMAIN pattern[j] } } |->
        path[CHOOSE i \in DOMAIN pattern : pattern[i] = Param(name)]]

NoRoute == [name |-> "GET (no route)", path |-> <<>>]

\* The route that handles the request: the first registered route that
\* matches.
Route(path) ==
    LET matching == { i \in DOMAIN GetRoutes :
                        Matches(GetRoutes[i].path, path) }
    IN  IF matching = {} THEN NoRoute
        ELSE GetRoutes[CHOOSE i \in matching : \A j \in matching : i <= j]

\* The query of getPublishedStories(category, sortBy).
StoriesQuery(category, sortBy) ==
    [OrderBy(WithFilters(category), SortColumns(sortBy))
       EXCEPT !.limit = Some(Limit)]

\* A story as a caller receives it.
StoryRow(id) == [id |-> id] @@ stories[id]

\* What getStoryChapters(storyId) may return: every chapter of the story,
\* published or not, by chapterNumber.
StoryChapters(storyId) ==
    LET ids == { i \in ChapterIds : Chapter(i).storyId = storyId }
    IN  { [i \in DOMAIN o |-> ChapterRow(o[i])] : o \in ChapterOrderings(ids) }

\* getStoriesByAuthor(authorId): the published stories of the author,
\* ORDER BY published_at DESC.
getStoriesByAuthor(authorId) ==
    LET ids == { id \in DOMAIN stories :
                   /\ stories[id].authorId = authorId
                   /\ stories[id].published }
    IN  { [i \in DOMAIN rows |-> StoryRow(rows[i].id)] :
            rows \in Orderings(ids, <<"publishedAt">>) }

\* getPublicQuotes(): quotes LEFT JOIN stories ON quotes.story_id =
\* stories.id (LEFT JOIN users) WHERE quotes.is_public = true ORDER BY
\* quotes.created_at DESC.  Each row is the quote with the columns of its
\* story under story; rows of the same time come in any order.
getPublicQuotes ==
    LET ids == { i \in DOMAIN quotes :
                   quotes[i] # Null /\ quotes[i].isPublic }
        row(i) == [id |-> i, story |-> StoryRow(quotes[i].storyId)]
                    @@ quotes[i]
        ranked == { <<Cardinality({ j \in ids : quotes[j].createdAt
                                               > quotes[i].createdAt }),
                      row(i)>> : i \in ids }
    IN  InRankOrder(ranked, 0, Cardinality(ids))

\* res.json(body) and res.status(status).json({ message }).
Ok(body) == [status |-> 200, body |-> body]
Failed(status) == [status |-> status]

\* if (!chapter.published && !isAuthor) return 404, without the test.
MayRead_Anyone(chapter, story, userId) == TRUE

\* GET /api/chapters/:id: the chapter is sent when it is published or the
\* user is the author of its story.
MayRead(chapter, story, userId) ==
    chapter.published \/ IsAuthorOfStory(story, userId)

\* What the handler of the route answers when it is one storage call (for
\* GET /api/chapters/:id, when it ends before its second call).
Responses(route, params, caller) ==
    CASE route = "GET /api/stories" ->
           { Ok(rows) : rows \in Results(StoriesQuery(Undefined, Undefined)) }
      [] route = "GET /api/stories/:category/:sortBy" ->
           { Ok(rows) :
               rows \in Results(StoriesQuery(params.category,
                                             params.sortBy)) }
      [] route = "GET /api/stories/:id" ->
           LET story == getStory(RowId(params.id))
           IN  IF story = Null \/ ~story[1].published
               THEN {Failed(404)}
               ELSE {Ok(StoryRow(RowId(params.id)))}
      [] route = "GET /api/stories/:id/chapters" ->
           { Ok(rows) : rows \in StoryChapters(RowId(params.id)) }
      [] route = "GET /api/chapters/:id" ->
           IF caller = Anonymous THEN {Failed(401), Failed(500)}
           ELSE {Failed(404)}
      [] route = "GET /api/stories/:id/likes" ->
           {Ok([count |-> getLikeCount(RowId(params.id))])}
      [] route = "GET /api/quotes/public" ->
           { Ok(rows) : rows \in getPublicQuotes }
      [] route = "GET /api/users/:id/stories" ->
           { Ok(rows) : rows \in getStoriesByAuthor(params.id) }
      [] OTHER -> {Failed(404)}

\* The response of a request as the observer records it.
Response(route, caller, path, answer) ==
    [op |-> route, caller |-> caller, path |-> path] @@ answer

\* A GET request by caller arrives: the route is chosen and its handler
\* runs up to its first answer or, in GET /api/chapters/:id, to the end of
\* const chapter = await storage.getChapter(req.params.id).
GET(p, caller, path) ==
    LET route == Route(path)
        params == Params(route.path, path)
    IN  /\ ~Running(p)
        /\ IF /\ route.name = "GET /api/chapters/:id"
              /\ caller # Anonymous
              /\ ChapterExists(RowId(params.id))
           THEN /\ procs' = [procs EXCEPT ![p] =
                     [op |-> route.name, pc |-> "getStory",
                      userId |-> caller, path |-> path,
                      chapter |-> ChapterRow(RowId(params.id))]]
                /\ resp' = NoResp
           ELSE /\ procs' = procs
                /\ \E answer \in Responses(route.name, params, caller) :
                      resp' = Response(route.name, caller, path, answer)
        /\ UNCHANGED <<now, stories, likes, notifications, bookmarks, feed,
                       mon, chapters, users, drafts, marks>>

\* GET /api/chapters/:id, second statement: const story = await
\* storage.getStory(chapter.storyId), the test, and the answer.
GET_chapters_id_GetStory(p) ==
    LET chapter == procs[p].chapter
        story == getStory(chapter.storyId)
    IN  /\ procs[p].op = "GET /api/chapters/:id"
        /\ procs[p].pc = "getStory"
        /\ resp' = Response(procs[p].op, procs[p].userId, procs[p].path,
                            IF MayRead(chapter, story, procs[p].userId)
                            THEN Ok(chapter) ELSE Failed(404))
        /\ procs' = [procs EXCEPT ![p] = IdleProc]
        /\ UNCHANGED <<now, stories, likes, notifications, bookmarks, feed,
                       mon, chapters, users, drafts, marks>>

Init ==
    /\ now = 1
    /\ stories = <<>>
    /\ likes = EmptyBag
    /\ notifications = <<>>
    /\ bookmarks = <<>>
    /\ procs = [p \in Procs |-> IdleProc]
    /\ feed = NoFeed
    /\ mon = NoMon
    /\ chapters = <<>>
    /\ users = RegisteredUsers
    /\ drafts = <<>>
    /\ resp = NoResp
    /\ highlights = <<>>
    /\ quotes = <<>>

(***************************************************************************)
(* Story lifecycle: the single-statement story methods.                    *)
(***************************************************************************)
NextStory ==
    \/ Tick
    \/ \E story \in InsertStory : createStory(story)
    \/ \E id \in StoryIds, updates \in PartialInsertStory :
          updateStory(id, updates)
    \/ \E id \in StoryIds : publishStory(id)
    \/ \E id \in StoryIds : enableChaptersOnStory(id)

SpecStory == Init /\ [][NextStory]_vars

(***************************************************************************)
(* The public feed.  getPublishedStories is a function of the stories and  *)
(* likes tables, so it is applied to every content of the two tables that  *)
(* the operations above produce within the bounds:                         *)
(*   - a story created at time 1 by createStory and left alone             *)
(*     (published as given, publishedAt NULL), or published since by       *)
(*     publishStory at some time t;                                        *)
(*   - for every user and story, a Like row or none.                       *)
(***************************************************************************)
StoryRowsAtRest ==
    { InsertStoryRow(story, 1) :
        story \in { d \in InsertStory :
                      d.authorId = "u1" /\ "hasChapters" \notin DOMAIN d } }

PublishedStoryRows ==
    { SetColumns(row, [published |-> TRUE, publishedAt |-> Some(t),
                       updatedAt |-> t]) :
        row \in { r \in StoryRowsAtRest : ~r.published }, t \in Times }

StoryTables ==
    UNION { [1..n -> StoryRowsAtRest \cup PublishedStoryRows] :
              n \in 0..MaxStories }

LikeTables(ids) ==
    { SetToBag(rows) :
        rows \in SUBSET { LikeRow(userId, id) : userId \in Users, id \in ids } }

InitFeed ==
    /\ now = MaxTime
    /\ stories \in StoryTables
    /\ likes \in LikeTables(DOMAIN stories)
    /\ notifications = <<>>
    /\ bookmarks = <<>>
    /\ procs = [p \in Procs |-> IdleProc]
    /\ feed = NoFeed
    /\ mon = NoMon
    /\ chapters = <<>>
    /\ users = RegisteredUsers
    /\ drafts = <<>>
    /\ resp = NoResp
    /\ highlights = <<>>
    /\ quotes = <<>>

NextFeed ==
    \E category \in CategoryArgs, sortBy \in SortByArgs :
        getPublishedStories(category, sortBy)

SpecFeed == InitFeed /\ [][NextFeed]_vars

(***************************************************************************)
(* Likes: concurrent toggleLike requests over two stories, one by each     *)
(* user, already created and published.                                    *)
(***************************************************************************)
TwoStories ==
    << [authorId |-> "u1", category |-> "story", published |-> TRUE,
        publishedAt |-> Some(1), hasChapters |-> FALSE, createdAt |-> 1,
        updatedAt |-> 1],
       [authorId |-> "u2", category |-> "poem", published |-> TRUE,
        publishedAt |-> Some(1), hasChapters |-> FALSE, createdAt |-> 1,
        updatedAt |-> 1] >>

InitLike ==
    /\ now = 1
    /\ stories = TwoStories
    /\ likes = EmptyBag
    /\ notifications = <<>>
    /\ bookmarks = <<>>
    /\ procs = [p \in Procs |-> IdleProc]
    /\ feed = NoFeed
    /\ mon = NoMon
    /\ chapters = <<>>
    /\ users = RegisteredUsers
    /\ drafts = <<>>
    /\ resp = NoResp
    /\ highlights = <<>>
    /\ quotes = <<>>

NextLike == \E p \in Procs : toggleLike(p)

SpecLike == InitLike /\ [][NextLike]_vars

(***************************************************************************)
(* Bookmarks: concurrent createBookmark requests, and deleteBookmark, over *)
(* the same two stories.                                                   *)
(***************************************************************************)
NextBookmark ==
    \/ \E p \in Procs : createBookmark(p)
    \/ \E id \in 1..MaxBookmarks : deleteBookmark(id)

SpecBookmark == InitLike /\ [][NextBookmark]_vars

(***************************************************************************)
(* Chapters of the same two stories: created in any order with any         *)
(* numbers, updated, published, deleted, and listed.                       *)
(***************************************************************************)
NextChapter ==
    \/ \E chapter \in InsertChapter : createChapter(chapter)
    \/ \E id \in ChapterSlots, updates \in PartialInsertChapter :
          updateChapter(id, updates)
    \/ \E id \in ChapterSlots : publishChapter(id)
    \/ \E id \in ChapterSlots : deleteChapter(id)
    \/ \E storyId \in StoryIds : getStoryChapters(storyId)

SpecChapter == InitLike /\ [][NextChapter]_vars

(***************************************************************************)
(* The walk-through of one story: on an empty store an author creates an   *)
(* unpublished story, reads the feed, publishes the story, reads the feed  *)
(* again; then another user likes the story and unlikes it.  Each call is  *)
(* issued when the one before it has returned; time passes at any point.   *)
(***************************************************************************)
NextScenario ==
    \/ Tick
    \/ /\ stories = <<>>
       /\ \E story \in InsertStory :
             /\ "published" \in DOMAIN story => ~story.published
             /\ createStory(story)
    \/ /\ stories # <<>> /\ ~stories[1].published
       /\ getPublishedStories(Undefined, Undefined)
    \/ /\ feed.valid /\ ~stories[1].published
       /\ publishStory(1)
    \/ /\ stories # <<>> /\ stories[1].published
       /\ mon.phase = "idle" /\ Quiescent /\ likes = EmptyBag
       /\ getPublishedStories(Undefined, Undefined)
    \/ /\ feed.valid /\ stories[1].published
       /\ \E userId \in Users \ {stories[1].authorId} :
             TL_Select(1, userId, 1)
    \/ TL_Insert(1)
    \/ TL_GetStory(1)
    \/ TL_Notify(1)
    \/ TL_Count(1)
    \/ /\ mon.phase = "between"
       /\ TL_Select(1, mon.userId, 1)
       /\ mon'.phase = "second"
    \/ TL_Delete(1)

SpecScenario == Init /\ [][NextScenario]_vars

(***************************************************************************)
(* Users: sign-ins and profile updates on a store without users.           *)
(***************************************************************************)
InitUser ==
    /\ now = 1
    /\ stories = <<>>
    /\ likes = EmptyBag
    /\ notifications = <<>>
    /\ bookmarks = <<>>
    /\ procs = [p \in Procs |-> IdleProc]
    /\ feed = NoFeed
    /\ mon = NoMon
    /\ chapters = <<>>
    /\ users = <<>>
    /\ drafts = <<>>
    /\ resp = NoResp
    /\ highlights = <<>>
    /\ quotes = <<>>

NextUser ==
    \/ Tick
    \/ \E userData \in UpsertUser : upsertUser(userData)

SpecUser == InitUser /\ [][NextUser]_vars

(***************************************************************************)
(* Notifications: one like request at a time, statement by statement,      *)
(* while stories change hands (PUT /api/stories/:id with an authorId) and  *)
(* notifications are marked read.                                          *)
(***************************************************************************)
NextNotify ==
    \/ toggleLike(1)
    \/ \E id \in StoryIds, updates \in Required("authorId", Users) :
          id \in DOMAIN stories /\ updateStory(id, updates)
    \/ \E id \in 1..MaxNotifications : markNotificationRead(id)

SpecNotify == InitLike /\ [][NextNotify]_vars

(***************************************************************************)
(* Drafts: the draft requests of the two users, concurrent, on a store     *)
(* without drafts.                                                         *)
(***************************************************************************)
NextDraft ==
    \/ \E userId \in Users : GET_drafts(userId)
    \/ \E userId \in Users, id \in DraftSlots : GET_drafts_id(userId, id)
    \/ \E userId \in Users, body \in PartialInsertDraft :
          POST_drafts(userId, body)
    \/ \E p \in Procs : PUT_drafts_id(p)
    \/ \E p \in Procs : DELETE_drafts_id(p)

SpecDraft == Init /\ [][NextDraft]_vars

(***************************************************************************)
(* Authors: the requests of the two users that write a story or a chapter, *)
(* over the two stories, one of each user.  Of the accepted bodies, those  *)
(* that set authorId or hasChapters of a story and storyId of a chapter;   *)
(* every chapter is created with number 1.  One request runs at a time,    *)
(* statement by statement.                                                 *)
(***************************************************************************)
AuthorProcs == {1}

StoryBodies ==
    { body \in PartialInsertStory :
        DOMAIN body \subseteq {"authorId", "hasChapters"} }

NewChapterBodies == Required("chapterNumber", {1})

ChapterBodies ==
    { body \in PartialInsertChapter :
        DOMAIN body \subseteq {"storyId"} }

NextAuthor ==
    \E p \in AuthorProcs :
        \/ \E userId \in Users, id \in StoryIds :
              \/ \E body \in StoryBodies :
                    StoryRoute_Get(p, "PUT /api/stories/:id", userId, id,
                                   body)
              \/ StoryRoute_Get(p, "POST /api/stories/:id/publish", userId,
                                id, <<>>)
              \/ StoryRoute_Get(p, "PUT /api/stories/:id/enable-chapters",
                                userId, id, <<>>)
              \/ \E body \in NewChapterBodies :
                    StoryRoute_Get(p, "POST /api/stories/:id/chapters",
                                   userId, id, body)
        \/ PUT_stories_id_Update(p)
        \/ POST_stories_id_publish_Publish(p)
        \/ PUT_stories_id_enable_chapters_Enable(p)
        \/ POST_stories_id_chapters_Create(p)
        \/ POST_stories_id_chapters_Flag(p)
        \/ \E userId \in Users, id \in ChapterSlots :
              \/ \E body \in ChapterBodies :
                    ChapterRoute_GetChapter(p, "PUT /api/chapters/:id",
                                            userId, id, body)
              \/ ChapterRoute_GetChapter(p, "DELETE /api/chapters/:id",
                                         userId, id, <<>>)
              \/ ChapterRoute_GetChapter(p, "POST /api/chapters/:id/publish",
                                         userId, id, <<>>)
        \/ ChapterRoute_GetStory(p)
        \/ PUT_chapters_id_Update(p)
        \/ DELETE_chapters_id_Delete(p)
        \/ POST_chapters_id_publish_Publish(p)

SpecAuthor == InitLike /\ [][NextAuthor]_vars

(***************************************************************************)
(* Highlights and quotes: readers mark the two stories and the one chapter *)
(* of the first, any number of times, and the chapter is deleted.          *)
(***************************************************************************)
OneChapter == << Some(InsertChapterRow([storyId |-> 1, chapterNumber |-> 1],
                                       1)) >>

InitMark ==
    /\ now = 1
    /\ stories = TwoStories
    /\ likes = EmptyBag
    /\ notifications = <<>>
    /\ bookmarks = <<>>
    /\ procs = [p \in Procs |-> IdleProc]
    /\ feed = NoFeed
    /\ mon = NoMon
    /\ chapters = OneChapter
    /\ users = RegisteredUsers
    /\ drafts = <<>>
    /\ resp = NoResp
    /\ highlights = <<>>
    /\ quotes = <<>>

NextMark ==
    \/ \E highlight \in InsertHighlight : createHighlight(highlight)
    \/ \E quote \in InsertQuote : createQuote(quote)
    \/ \E id \in ChapterSlots : deleteChapter(id)

SpecMark == InitMark /\ [][NextMark]_vars

(***************************************************************************)
(* Bookmarks of one reader's place: one createBookmark call at a time,     *)
(* statement by statement, with any position and with or without the      *)
(* chapter, and deleteBookmark, over the same stories and chapter.         *)
(***************************************************************************)
PlaceData ==
    { bookmark \in BookmarkData :
        /\ bookmark.userId = "u1"
        /\ "chapterId" \in DOMAIN bookmark
              => ChapterExists(bookmark.chapterId) }

NextPlace ==
    \/ \E bookmark \in PlaceData : CB_Select(1, bookmark)
    \/ CB_Update(1)
    \/ CB_Insert(1)
    \/ \E id \in 1..MaxBookmarks : deleteBookmark(id)

SpecPlace == InitMark /\ [][NextPlace]_vars

(***************************************************************************)
(* The feed of a store with about Limit stories: n stories of category     *)
(* "story", the i-th published at time i (or the first two at the same     *)
(* time), the last one possibly a poem, with likes on the first and the    *)
(* last story.                                                             *)
(***************************************************************************)
ManyStories(n, sameTime, lastIsPoem) ==
    [i \in 1..n |->
        [authorId |-> IF i % 2 = 1 THEN "u1" ELSE "u2",
         category |-> IF lastIsPoem /\ i = n THEN "poem" ELSE "story",
         published |-> TRUE,
         publishedAt |-> Some(IF sameTime /\ i = 1 THEN 2 ELSE i),
         hasChapters |-> FALSE,
         createdAt |-> 1,
         updatedAt |-> IF sameTime /\ i = 1 THEN 2 ELSE i]]

InitLimit ==
    /\ \E n \in (Limit - LimitMargin + 1)..(Limit + LimitMargin) :
          /\ now = n + 1
          /\ \E sameTime, lastIsPoem \in BOOLEAN :
                stories = ManyStories(n, sameTime, lastIsPoem)
          /\ likes \in { SetToBag(rows) :
                rows \in SUBSET { LikeRow("u1", 1), LikeRow("u2", 1),
                                  LikeRow("u1", n) } }
    /\ notifications = <<>>
    /\ bookmarks = <<>>
    /\ procs = [p \in Procs |-> IdleProc]
    /\ feed = NoFeed
    /\ mon = NoMon
    /\ chapters = <<>>
    /\ users = RegisteredUsers
    /\ drafts = <<>>
    /\ resp = NoResp
    /\ highlights = <<>>
    /\ quotes = <<>>

SpecLimit == InitLimit /\ [][NextFeed]_vars

(***************************************************************************)
(* Look-ups: the methods that take the id of a story, chapter, draft or    *)
(* user, called with ids that match a row and ids that match none, on a    *)
(* store with one story, one chapter of it and one draft.  Of the patches, *)
(* those of category and published of a story, of chapterNumber and        *)
(* published of a chapter, and every patch of a draft.                     *)
(***************************************************************************)
StoryPatches ==
    { updates \in PartialInsertStory :
        DOMAIN updates \subseteq {"category", "published"} }

ChapterPatches ==
    { updates \in PartialInsertChapter :
        DOMAIN updates \subseteq {"chapterNumber", "published"} }

InitLookup ==
    /\ now = 1
    /\ stories = SubSeq(TwoStories, 1, 1)
    /\ likes = EmptyBag
    /\ notifications = <<>>
    /\ bookmarks = <<>>
    /\ procs = [p \in Procs |-> IdleProc]
    /\ feed = NoFeed
    /\ mon = NoMon
    /\ chapters = OneChapter
    /\ users = RegisteredUsers
    /\ drafts = << Some(InsertDraftRow([authorId |-> "u1"], 1)) >>
    /\ resp = NoResp
    /\ highlights = <<>>
    /\ quotes = <<>>

NextLookup ==
    \/ \E id \in StoryIds : Get("getStory", id)
    \/ \E id \in ChapterSlots : Get("getChapter", id)
    \/ \E id \in DraftSlots : Get("getDraft", id)
    \/ \E id \in Users \cup {NoUser} : Get("getUser", id)
    \/ \E id \in StoryIds, updates \in StoryPatches :
          updateStory(id, updates)
    \/ \E id \in StoryIds : publishStory(id)
    \/ \E id \in ChapterSlots, updates \in ChapterPatches :
          updateChapter(id, updates)
    \/ \E id \in ChapterSlots : publishChapter(id)
    \/ \E id \in ChapterSlots : deleteChapter(id)
    \/ \E id \in DraftSlots, updates \in PartialInsertDraft :
          updateDraft(id, updates)
    \/ \E id \in DraftSlots : deleteDraft(id)

SpecLookup == InitLookup /\ [][NextLookup]_vars

(***************************************************************************)
(* Likes of stories that may not exist: concurrent toggleLike requests     *)
(* with the ids of the one story of the store and of a story that a user   *)
(* has yet to create.                                                      *)
(***************************************************************************)
NewStories ==
    { story \in InsertStory :
        story.authorId = "u2" /\ DOMAIN story = {"authorId", "category"} }

NextAbsent ==
    \/ \E p \in Procs : toggleLike(p)
    \/ \E story \in NewStories : createStory(story)

SpecAbsent == InitLookup /\ [][NextAbsent]_vars

(***************************************************************************)
(* Owners: the two users mark and bookmark the first story and delete      *)
(* highlights, bookmarks and quotes by id through the delete routes.       *)
(***************************************************************************)
OwnerData == { data \in InsertHighlight : DOMAIN data = {"userId", "storyId"}
                                             /\ data.storyId = 1 }

OwnerBookmarks ==
    { bookmark \in BookmarkData :
        /\ DOMAIN bookmark = {"userId", "storyId", "position"}
        /\ bookmark.position = 0 /\ bookmark.storyId = 1 }

NextOwner ==
    \/ \E highlight \in OwnerData : createHighlight(highlight)
    \/ \E quote \in OwnerData : createQuote(quote)
    \/ \E bookmark \in OwnerBookmarks : CB_Select(1, bookmark)
    \/ CB_Update(1)
    \/ CB_Insert(1)
    \/ \E route \in DeleteRoutes, userId \in Users,
          id \in 1..MaxHighlights \cup 1..MaxBookmarks \cup 1..MaxQuotes :
          DeleteRoute(route, userId, id)

SpecOwner == InitMark /\ [][NextOwner]_vars

(***************************************************************************)
(* Readers of chapters: authors add chapters to the two stories, publish   *)
(* and unpublish them, while the two users and callers without a session   *)
(* request single chapters and the chapter lists of the stories, one       *)
(* request at a time, statement by statement.                              *)
(***************************************************************************)
ChapterPaths ==
    { <<"chapters", Segment(id)>> : id \in ChapterSlots }
      \cup { <<"stories", Segment(id), "chapters">> : id \in StoryIds }

ReaderChapters ==
    { chapter \in InsertChapter :
        /\ DOMAIN chapter = {"storyId", "chapterNumber"}
        /\ chapter.chapterNumber = 1 }

ReaderPatches ==
    { updates \in PartialInsertChapter : DOMAIN updates = {"published"} }

NextReader ==
    \/ \E chapter \in ReaderChapters : createChapter(chapter)
    \/ \E id \in ChapterSlots : publishChapter(id)
    \/ \E id \in ChapterSlots, updates \in ReaderPatches :
          updateChapter(id, updates)
    \/ \E caller \in Callers, path \in ChapterPaths : GET(1, caller, path)
    \/ GET_chapters_id_GetStory(1)

SpecReader == InitMark /\ [][NextReader]_vars

(***************************************************************************)
(* Readers of stories: on an empty store the first user writes stories     *)
(* and publishes them, the second user quotes them, and callers without a  *)
(* session request a story, the stories of a user and the public quotes.   *)
(***************************************************************************)
StoryPaths ==
    { <<"stories", Segment(id)>> : id \in StoryIds }
      \cup { <<"users", userId, "stories">> : userId \in Users }
      \cup { <<"quotes", "public">> }

PublicStories ==
    { story \in InsertStory :
        story.authorId = "u1" /\ story.category = "story"
        /\ "hasChapters" \notin DOMAIN story }

PublicQuotes ==
    { quote \in InsertQuote :
        quote.userId = "u2" /\ "chapterId" \notin DOMAIN quote }

NextPublic ==
    \/ \E story \in PublicStories : createStory(story)
    \/ \E id \in StoryIds : publishStory(id)
    \/ \E quote \in PublicQuotes : createQuote(quote)
    \/ \E path \in StoryPaths : GET(1, Anonymous, path)

SpecPublic == Init /\ [][NextPublic]_vars

(***************************************************************************)
(* Requests under /api/stories: the listing with and without a category    *)
(* and an order in the path, a story, the chapters of a story and its      *)
(* like count, by any caller, while the two stories, the first with one    *)
(* chapter, are liked and unliked.                                         *)
(***************************************************************************)
ListingPaths ==
    { <<"stories">> }
      \cup { <<"stories", category, sortBy>> :
               category \in {"all"} \cup Categories,
               sortBy \in {"recent"} }

StoryIdPaths ==
    UNION { { <<"stories", Segment(id)>>,
              <<"stories", Segment(id), "chapters">>,
              <<"stories", Segment(id), "likes">> } : id \in StoryIds }

\* None of these routes looks at the session.
DispatchCallers == {Anonymous, "u1"}

NextDispatch ==
    \/ toggleLike(2)
    \/ \E caller \in DispatchCallers,
          path \in ListingPaths \cup StoryIdPaths : GET(1, caller, path)

SpecDispatch == InitMark /\ [][NextDispatch]_vars

(***************************************************************************)
(* Two readers: each of the two users, in a request of their own, likes    *)
(* stories that they have not liked, on a store without likes; the two     *)
(* requests run concurrently, statement by statement.                      *)
(***************************************************************************)
PairProcs == {1, 2}
PairUser(p) == IF p = 1 THEN "u1" ELSE "u2"

NextPair ==
    \E p \in PairProcs :
        \/ \E storyId \in StoryIds :
              /\ ~existingLike(PairUser(p), storyId)
              /\ TL_Select(p, PairUser(p), storyId)
        \/ TL_Insert(p)
        \/ TL_GetStory(p)
        \/ TL_Notify(p)
        \/ TL_Count(p)

SpecPair == InitLike /\ [][NextPair]_vars

(***************************************************************************)
(* Properties of toggleLike.                                               *)
(***************************************************************************)
ToggleCalls == { p \in Procs : procs[p].op = "toggleLike" }

\* C3: in every reachable state, whatever the interleaving of the
\* statements of concurrent toggleLike calls, there is at most one Like row
\* per (userId, storyId) pair.
C3_AtMostOneLikePerPair ==
    \A userId \in Users, storyId \in StoryIds : LikesOf(userId, storyId) <= 1

\* C4 (as stated): from any reachable state, the second of two toggleLike(u,
\* s) calls made in succession returns liked = false and the like count s
\* had before the first call.
C4_SecondToggleUnlikes ==
    (mon.phase = "after" /\ mon.op = "toggleLike")
        => /\ mon.res2.liked = FALSE
           /\ mon.res2.count = mon.before.count

\* C4 (amended): from any reachable state with no Like row for (u, s), the
\* second of two toggleLike(u, s) calls made in succession returns liked =
\* false and the like count s had before the first call.
C4_SecondToggleUnlikesFromUnliked ==
    (mon.phase = "after" /\ mon.op = "toggleLike" /\ mon.before.rows = 0)
        => /\ mon.res2.liked = FALSE
           /\ mon.res2.count = mon.before.count

\* Two calls in succession from an unliked state of a story that other
\* users like.
C4_Witness ==
    /\ mon.phase = "after" /\ mon.op = "toggleLike"
    /\ mon.before.rows = 0 /\ mon.before.count > 0
    /\ mon.res1.liked = TRUE

\* C5: with no Like row for (u, s) and nothing running concurrently, one
\* toggleLike(u, s) returns liked = true and the previous like count of s
\* plus one, and leaves exactly one Like row for (u, s).
C5_SingleToggleLikes ==
    (mon.phase = "between" /\ mon.op = "toggleLike" /\ mon.before.rows = 0)
        => /\ mon.res1.liked = TRUE
           /\ mon.res1.count = mon.before.count + 1
           /\ LikesOf(mon.userId, mon.storyId) = 1

\* A lone call has just liked a story that already had likes.
C5_Witness ==
    /\ mon.phase = "between" /\ mon.op = "toggleLike"
    /\ mon.before.rows = 0 /\ mon.before.count > 0
    /\ LikesOf(mon.userId, mon.storyId) = 1

\* C6: a toggleLike call that inserted a Like has created exactly one
\* Notification (type "like", addressed to the story's author, naming the
\* story) when the author is another user, and none when the author is the
\* caller; a call that removed a Like has created none.  Checked when the
\* call reaches its last statement.
C6_NotificationPerLike ==
    \A p \in ToggleCalls :
        procs[p].pc = "count" =>
            LET c == procs[p]
                author == stories[c.storyId].authorId
            IN  IF c.liked /\ author # c.userId
                THEN /\ Len(c.made) = 1
                     /\ c.made[1] \in DOMAIN notifications
                     /\ notifications[c.made[1]].userId = author
                     /\ notifications[c.made[1]].type = "like"
                     /\ notifications[c.made[1]].storyId = Some(c.storyId)
                ELSE c.made = <<>>

\* One call has notified an author while another has liked its caller's own
\* story and notified nobody.
C6_Witness ==
    \E p, q \in ToggleCalls :
        /\ procs[p].pc = "count" /\ procs[p].liked /\ Len(procs[p].made) = 1
        /\ procs[q].pc = "count" /\ procs[q].liked /\ procs[q].made = <<>>

(***************************************************************************)
(* Properties of createBookmark.                                           *)
(***************************************************************************)
\* The note a createBookmark call passes: NULL when it passes none.
NoteOf(bookmark) == IF "note" \in DOMAIN bookmark THEN bookmark.note ELSE Null

\* C7: after two createBookmark calls in succession for the same (userId,
\* storyId) with different notes, exactly one Bookmark row exists for the
\* pair and its note is the note of the second call.
C7_SecondBookmarkReplacesNote ==
    (/\ mon.phase = "after" /\ mon.op = "createBookmark"
     /\ NoteOf(mon.arg1) # NoteOf(mon.arg2))
        => /\ Cardinality(BookmarksOf(mon.userId, mon.storyId)) = 1
           /\ \A i \in BookmarksOf(mon.userId, mon.storyId) :
                 Bookmark(i).note = NoteOf(mon.arg2)

\* C8: in every reachable state, whatever the interleaving of the select
\* and the insert/update statements of concurrent createBookmark calls,
\* there is at most one Bookmark row per (userId, storyId) pair.
C8_AtMostOneBookmarkPerPair ==
    \A userId \in Users, storyId \in StoryIds :
        Cardinality(BookmarksOf(userId, storyId)) <= 1

(***************************************************************************)
(* Properties of getPublishedStories.                                      *)
(***************************************************************************)
\* C2: whatever category and sortBy are, every row getPublishedStories
\* returns is a story with published = true.
C2_OnlyPublishedRows ==
    feed.valid => \A i \in DOMAIN feed.rows : feed.rows[i].published = TRUE

\* C9: for every sortBy other than "recent", the rows come by like count
\* descending, and rows with the same like count by publishedAt descending
\* (PostgreSQL puts a NULL publishedAt before any time).
C9_TrendingOrder ==
    (feed.valid /\ feed.sortBy # "recent") =>
        \A i, j \in DOMAIN feed.rows :
            i < j =>
              LET a == feed.rows[i]
                  b == feed.rows[j]
              IN  /\ a.likeCount >= b.likeCount
                  /\ (a.likeCount = b.likeCount /\ b.publishedAt = Null)
                        => a.publishedAt = Null
                  /\ (/\ a.likeCount = b.likeCount
                      /\ a.publishedAt # Null /\ b.publishedAt # Null)
                        => a.publishedAt[1] >= b.publishedAt[1]

\* An unrecognised sortBy returned the more liked story ahead of the more
\* recently published one.
C9_Witness ==
    /\ feed.valid /\ feed.sortBy = "popular" /\ Len(feed.rows) = 2
    /\ feed.rows[1].likeCount > feed.rows[2].likeCount
    /\ feed.rows[1].publishedAt # Null /\ feed.rows[2].publishedAt # Null
    /\ feed.rows[1].publishedAt[1] < feed.rows[2].publishedAt[1]

\* C10: with sortBy = "recent" the rows come by publishedAt descending
\* (a NULL publishedAt first), whatever their like counts.
C10_RecentOrder ==
    (feed.valid /\ feed.sortBy = "recent") =>
        \A i, j \in DOMAIN feed.rows :
            i < j =>
              LET a == feed.rows[i]
                  b == feed.rows[j]
              IN  /\ b.publishedAt = Null => a.publishedAt = Null
                  /\ (a.publishedAt # Null /\ b.publishedAt # Null)
                        => a.publishedAt[1] >= b.publishedAt[1]

\* "recent" returned the more recent story ahead of a more liked one.
C10_Witness ==
    /\ feed.valid /\ feed.sortBy = "recent" /\ Len(feed.rows) = 2
    /\ feed.rows[1].publishedAt # Null /\ feed.rows[2].publishedAt # Null
    /\ feed.rows[1].publishedAt[1] > feed.rows[2].publishedAt[1]
    /\ feed.rows[1].likeCount < feed.rows[2].likeCount

\* C11: every row getPublishedStories returns has likeCount equal to the
\* number of Like rows of its story; no story comes in two rows; and a
\* published story that passes the category argument and has no Like row is
\* returned, with likeCount 0 (short of the limit cutting the result).
C11_LikeCountPerStory ==
    feed.valid =>
        /\ \A i \in DOMAIN feed.rows :
              feed.rows[i].likeCount = getLikeCount(feed.rows[i].id)
        /\ \A i, j \in DOMAIN feed.rows :
              i # j => feed.rows[i].id # feed.rows[j].id
        /\ \A id \in DOMAIN stories :
              (/\ stories[id].published
               /\ getLikeCount(id) = 0
               /\ feed.category \in {Undefined, "all", stories[id].category})
                 => \/ \E i \in DOMAIN feed.rows :
                         feed.rows[i].id = id /\ feed.rows[i].likeCount = 0
                    \/ Len(feed.rows) = Limit

\* A story liked by both users came in one row with likeCount 2, next to a
\* story without likes with likeCount 0.
C11_Witness ==
    /\ feed.valid
    /\ \E i, j \in DOMAIN feed.rows :
          /\ feed.rows[i].likeCount = 2
          /\ feed.rows[j].likeCount = 0
          /\ stories[feed.rows[j].id].published

C13_StrictlyAscending ==
    resp.op = "getStoryChapters" =>
        \A i, j \in DOMAIN resp.rows :
            i < j => resp.rows[i].chapterNumber < resp.rows[j].chapterNumber

(***************************************************************************)
(* Properties of the story lifecycle.                                      *)
(***************************************************************************)
\* C1: in every state reached by createStory, updateStory, publishStory and
\* enableChaptersOnStory, every story has publishedAt non-null if and only
\* if published is true.
C1_PublishedAtIffPublished ==
    \A id \in DOMAIN stories :
        (stories[id].publishedAt # Null) <=> (stories[id].published = TRUE)

\* C14: published is terminal.  No step of the story operations (updateStory
\* with any accepted patch included) takes a story with published = true
\* to published = false.
C14_PublishedIsTerminal ==
    [][\A id \in DOMAIN stories :
          stories[id].published => stories'[id].published]_vars

\* C15: hasChapters is monotonic.  No step of the story operations
\* (updateStory with any accepted patch included) takes a story with
\* hasChapters = true to hasChapters = false.
C15_HasChaptersIsMonotonic ==
    [][\A id \in DOMAIN stories :
          stories[id].hasChapters => stories'[id].hasChapters]_vars

\* C16: for every input createStory accepts, the story it creates has
\* published = false, publishedAt = NULL, and hasChapters as supplied
\* (false when not supplied).
C16_CreatedStoryIsUnpublished ==
    [][\A story \in InsertStory :
          createStory(story) =>
              LET created == stories'[Len(stories')]
              IN  /\ created.published = FALSE
                  /\ created.publishedAt = Null
                  /\ created.hasChapters =
                        IF "hasChapters" \in DOMAIN story
                        THEN story.hasChapters ELSE FALSE]_vars

(***************************************************************************)
(* The walk-through.                                                       *)
(***************************************************************************)
\* The notifications addressed to userId.
NotificationsOf(userId) ==
    { n \in DOMAIN notifications : notifications[n].userId = userId }

\* C17: step by step in the walk-through, getPublishedStories() leaves the
\* story out while it is unpublished and returns it with likeCount 0 once
\* it is published; the first toggleLike by another user returns liked =
\* true and count 1 and leaves the author exactly one notification; the
\* second returns liked = false and count 0.
C17_Scenario ==
    /\ (feed.valid /\ ~stories[1].published) =>
          \A i \in DOMAIN feed.rows : feed.rows[i].id # 1
    /\ (feed.valid /\ stories[1].published) =>
          /\ Len(feed.rows) = 1
          /\ feed.rows[1].id = 1 /\ feed.rows[1].likeCount = 0
    /\ mon.phase = "between" =>
          /\ mon.res1 = [liked |-> TRUE, count |-> 1]
          /\ Cardinality(NotificationsOf(stories[1].authorId)) = 1
    /\ mon.phase = "after" =>
          mon.res2 = [liked |-> FALSE, count |-> 0]

\* The walk-through has run to its end.
C17_Witness ==
    /\ mon.phase = "after" /\ mon.res1.liked /\ ~mon.res2.liked
    /\ stories[1].published /\ likes = EmptyBag
    /\ Len(notifications) = 1

(***************************************************************************)
(* Properties of upsertUser.                                               *)
(***************************************************************************)
\* What the claim says of one upsertUser(userData) step.  (resp' names the
\* userData of the step.)
UpsertEffect(userData) ==
    /\ userData.id \notin DOMAIN users => userData.id \in DOMAIN users'
    /\ userData.id \in DOMAIN users =>
          /\ DOMAIN users' = DOMAIN users
          /\ \A f \in DOMAIN userData \ {"id"} :
                users'[userData.id][f] = userData[f]
    /\ \A other \in DOMAIN users \ {userData.id} :
          other \in DOMAIN users' /\ users'[other] = users[other]

\* Of two calls with the same data, one right after the other, the second
\* returns the user fields of the first, updatedAt aside, and they are the
\* fields of the stored row.
UpsertTwice ==
    (mon.phase = "after" /\ mon.op = "upsertUser") =>
        \A f \in UserColumns \ {"updatedAt"} :
            /\ mon.res2[f] = mon.res1[f]
            /\ users[mon.arg1.id][f] = mon.res1[f]

\* No other user holds the email or the username of userData.
NoOtherHolds(userData) ==
    \A other \in DOMAIN users \ {userData.id} :
        /\ ("email" \in DOMAIN userData /\ userData.email # Null)
              => users[other].email # userData.email
        /\ ("username" \in DOMAIN userData /\ userData.username # Null)
              => users[other].username # userData.username

AddedByLike ==
    \E p \in ToggleCalls :
        /\ procs[p].pc = "notify" /\ procs[p].liked
        /\ procs'[p].pc = "count"
        /\ procs[p].authorId # procs[p].userId
        /\ notifications' = Append(notifications,
              [userId |-> procs[p].authorId, type |-> "like",
               storyId |-> Some(procs[p].storyId), read |-> FALSE,
               createdAt |-> now])

\* The step adds and removes no notification and changes none but for
\* its read flag.
SameNotifications ==
    /\ Len(notifications') = Len(notifications)
    /\ \A n \in DOMAIN notifications :
          [notifications'[n] EXCEPT !.read = FALSE]
            = [notifications[n] EXCEPT !.read = FALSE]

\* C19: a notification comes into existence only in the like branch of
\* toggleLike, addressed to the author that call read from the story; no
\* other request adds one or changes whom an existing one addresses; and
\* every notification has type "like" and the storyId of an existing story.
C19_NotificationsOnlyFromLikes ==
    /\ [][AddedByLike \/ SameNotifications]_vars
    /\ [](\A n \in DOMAIN notifications :
            /\ notifications[n].type = "like"
            /\ notifications[n].storyId # Null
            /\ notifications[n].storyId[1] \in DOMAIN stories)

\* A like has notified the author of a story that has changed hands since,
\* and the notification has been marked read.
C19_Witness ==
    \E n \in DOMAIN notifications :
        /\ notifications[n].read
        /\ stories[notifications[n].storyId[1]].authorId
              # notifications[n].userId

(***************************************************************************)
(* Properties of the draft requests.                                       *)
(***************************************************************************)
\* The draft requests past their ownership check.
DraftWrites ==
    { p \in Procs : procs[p].op \in {"PUT /api/drafts/:id",
                                      "DELETE /api/drafts/:id"} }

\* C20: GET /api/drafts/:id and GET /api/drafts as u return only drafts
\* whose author is u; and a step changes or removes a draft only as the
\* write of a PUT or DELETE request whose user was the author of the draft
\* when the request read it: a request of any other user leaves the draft
\* unchanged and present.
C20_DraftsOnlyForAuthor ==
    /\ [](/\ (resp.op = "GET /api/drafts/:id" /\ resp.status = 200)
               => resp.draft.authorId = resp.userId
          /\ resp.op = "GET /api/drafts"
               => \A k \in DOMAIN resp.rows :
                     resp.rows[k].authorId = resp.userId)
    /\ [][\A i \in DOMAIN drafts :
            drafts'[i] # drafts[i] =>
                \E p \in DraftWrites :
                    /\ procs[p].id = i
                    /\ procs[p].draft.authorId = procs[p].userId
                    /\ procs'[p] = IdleProc]_vars

\* A user has asked to delete the draft of the other user, who is changing
\* it at that time, and has got 404.
C20_Witness ==
    /\ resp.op = "DELETE /api/drafts/:id" /\ resp.status = 404
    /\ resp.id \in DraftIds
    /\ Draft(resp.id).authorId # resp.userId
    /\ \E p \in DraftWrites : procs[p].id = resp.id

\* C22: publishStory(id) on an existing story leaves it with published =
\* true and publishedAt = the time of the call, which is not before the
\* publishedAt it had; its category, authorId, hasChapters and createdAt
\* are unchanged, and so is every other story.
C22_PublishStoryFrame ==
    [][\A id \in DOMAIN stories :
          publishStory(id) =>
              /\ stories'[id].published = TRUE
              /\ stories'[id].publishedAt = Some(now)
              /\ stories[id].publishedAt # Null
                    => stories[id].publishedAt[1] <= now
              /\ \A f \in {"category", "authorId", "hasChapters",
                            "createdAt"} :
                    stories'[id][f] = stories[id][f]
              /\ DOMAIN stories' = DOMAIN stories
              /\ \A other \in DOMAIN stories \ {id} :
                    stories'[other] = stories[other]]_vars

\* A story with chapters, created at an earlier time, is published next to
\* a story of the other user that is not.
C22_Witness ==
    \E id, other \in DOMAIN stories :
        /\ stories[id].published /\ stories[id].publishedAt = Some(MaxTime)
        /\ stories[id].createdAt < MaxTime /\ stories[id].hasChapters
        /\ stories[id].updatedAt = MaxTime
        /\ ~stories[other].published /\ stories[other].publishedAt = Null
        /\ stories[other].authorId # stories[id].authorId

\* C23: in every state reached by createChapter, updateChapter with any
\* accepted patch and publishChapter, every chapter has publishedAt
\* non-null if and only if published is true.
C23_ChapterPublishedAtIffPublished ==
    \A i \in ChapterIds :
        (Chapter(i).publishedAt # Null) <=> Chapter(i).published

(***************************************************************************)
(* Properties of the routes that write stories and chapters.               *)
(***************************************************************************)
\* The chapters of story s in a chapters table, each with its id.
ChaptersOfStory(table, s) ==
    { <<i, table[i]>> : i \in { j \in DOMAIN table :
                                  table[j] # Null /\ table[j][1].storyId = s } }

\* C21: a statement of a story update, publish or enable-chapters request
\* or of a chapter create, update, delete or publish request of user u
\* leaves every story whose authorId is not u, and the chapters of that
\* story, unchanged.
C21_OnlyTheAuthorWrites ==
    [][\A p \in Procs :
          (Running(p) /\ procs'[p] # procs[p]) =>
              \A s \in DOMAIN stories :
                  stories[s].authorId # procs[p].userId =>
                      /\ stories'[s] = stories[s]
                      /\ ChaptersOfStory(chapters', s)
                           = ChaptersOfStory(chapters, s)]_vars

\* C26: in every reachable state a story with at least one chapter has
\* hasChapters = true, and it has after a chapter was created through
\* POST /api/stories/:id/chapters.
C26_HasChaptersWithChapters ==
    \A s \in DOMAIN stories :
        ChaptersOfStory(chapters, s) # {} => stories[s].hasChapters

\* The same at rest only, when no request is between two statements.
HasChaptersAtRest == Quiescent => C26_HasChaptersWithChapters

\* C29 (as stated): enableChaptersOnStory(id) on an existing story sets
\* hasChapters to true and changes nothing else: every other field of the story, updatedAt
\* included, and every other story are unchanged.
C29_EnableChaptersFrame ==
    [][\A id \in DOMAIN stories :
          enableChaptersOnStory(id) =>
              /\ stories'[id].hasChapters = TRUE
              /\ \A f \in StoryColumns \ {"hasChapters"} :
                    stories'[id][f] = stories[id][f]
              /\ \A other \in DOMAIN stories \ {id} :
                    stories'[other] = stories[other]]_vars

\* C29 (amended): enableChaptersOnStory(id) on an existing story sets
\* hasChapters to true and updatedAt to the time of the call; every other
\* field of the story and every other story are unchanged.
C29_EnableChaptersFrameButUpdatedAt ==
    [][\A id \in DOMAIN stories :
          enableChaptersOnStory(id) =>
              /\ stories'[id].hasChapters = TRUE
              /\ stories'[id].updatedAt = now
              /\ \A f \in StoryColumns \ {"hasChapters", "updatedAt"} :
                    stories'[id][f] = stories[id][f]
              /\ \A other \in DOMAIN stories \ {id} :
                    stories'[other] = stories[other]]_vars

\* Chapters were enabled, later than its creation, on an unpublished story
\* next to a story without chapters.
C29_Witness ==
    \E id, other \in DOMAIN stories :
        /\ stories[id].hasChapters /\ ~stories[id].published
        /\ stories[id].createdAt < stories[id].updatedAt
        /\ ~stories[other].hasChapters
        /\ stories[other].updatedAt = stories[other].createdAt

(***************************************************************************)
(* Properties of highlights, bookmarks and quotes.                         *)
(***************************************************************************)
\* The effect of the UPDATE of createBookmark call p on the row it found:
\* no row is inserted, the row keeps its userId, storyId, position and
\* chapterId, and no other row changes.
UpdateFrame(p) ==
    LET id == procs[p].existingBookmark[1]
    IN  /\ Len(bookmarks') = Len(bookmarks)
        /\ \A f \in {"userId", "storyId", "position", "chapterId"} :
              bookmarks'[id][1][f] = bookmarks[id][1][f]
        /\ \A i \in DOMAIN bookmarks \ {id} : bookmarks'[i] = bookmarks[i]

\* C27: a createBookmark call that found an existing bookmark for (userId,
\* storyId) returns a row with the id of that bookmark, inserts no row and
\* changes only note and createdAt of the row: position and chapterId keep
\* their values whatever the data supplies, and no other bookmark changes.
C27_UpdateOfExistingBookmark ==
    [][\A p \in Procs :
          CB_Update(p) =>
              /\ bookmarks[procs[p].existingBookmark[1]] # Null
              /\ bookmarks'[procs[p].existingBookmark[1]] # Null
              /\ UpdateFrame(p)]_vars

\* The same for the calls whose bookmark is still there at the UPDATE.
UpdateOfPresentBookmark ==
    [][\A p \in Procs :
          (CB_Update(p) /\ bookmarks[procs[p].existingBookmark[1]] # Null)
              => UpdateFrame(p)]_vars

\* What a call that inserts does to a table: one row more, with the data
\* of the call and the next id, and every row that was there unchanged.
Inserted(table, tableAfter, data, id) ==
    /\ Len(tableAfter) = Len(table) + 1
    /\ id = Len(tableAfter) /\ id \notin DOMAIN table
    /\ \A i \in DOMAIN table : tableAfter[i] = table[i]
    /\ tableAfter[id].userId = data.userId
    /\ tableAfter[id].storyId = data.storyId
    /\ tableAfter[id].chapterId = IF "chapterId" \in DOMAIN data
                                  THEN Some(data.chapterId) ELSE Null

\* C25: createHighlight and createQuote always insert.  Every call whose
\* data names an existing user, story and (if any) chapter adds one row
\* with a new id, whatever rows with the same (userId, storyId, chapterId)
\* exist, and no call modifies an existing row.
C25_HighlightsAndQuotesAlwaysInsert ==
    /\ [][(resp'.op = "createHighlight" /\ createHighlight(resp'.data))
            => /\ \A i \in DOMAIN highlights :
                     highlights'[i] = highlights[i]
               /\ ReferencesExist(resp'.data)
                     => /\ ~resp'.threw
                        /\ Inserted(highlights, highlights', resp'.data,
                                    resp'.id)]_vars
    /\ [][(resp'.op = "createQuote" /\ createQuote(resp'.data))
            => /\ \A i \in DOMAIN quotes : quotes'[i] = quotes[i]
               /\ ReferencesExist(resp'.data)
                     => /\ ~resp'.threw
                        /\ Inserted(quotes, quotes', resp'.data,
                                    resp'.id)]_vars

\* Two highlights and two quotes with the same user, story and chapter,
\* the second quote just inserted.
C25_Witness ==
    /\ Len(highlights) = 2 /\ highlights[1] = highlights[2]
    /\ Len(quotes) = 2 /\ quotes[1] = quotes[2]
    /\ highlights[1].chapterId = Some(1)
    /\ resp.op = "createQuote" /\ ~resp.threw /\ resp.id = 2

\* C28: deleteChapter(id) on an existing chapter succeeds and removes that
\* chapter and no other, also when highlights, bookmarks or quotes name it
\* in chapterId; the rows that name it stay as they are.
C28_DeleteChapterLeavesReferences ==
    [][\A id \in ChapterIds :
          deleteChapter(id) =>
              /\ ~resp'.threw
              /\ chapters'[id] = Null
              /\ \A i \in DOMAIN chapters \ {id} : chapters'[i] = chapters[i]
              /\ UNCHANGED <<highlights, bookmarks, quotes>>]_vars

(***************************************************************************)
(* Properties of the feed of a large store.                                *)
(***************************************************************************)
\* The stories that the WHERE of the last feed call matches.
Matching ==
    LET query == WithFilters(feed.category)
    IN  { id \in Groups :
            \A k \in DOMAIN query.where :
                Satisfies(FeedRow(id), query.where[k]) }

\* C24: getPublishedStories returns at most 50 rows, and when more than 50
\* stories match, the rows are the first 50 of the matching stories in sort
\* order: 50 different matching stories, in order, none of which has to
\* come after a matching story that was left out.
C24_AtMostLimitRows ==
    feed.valid =>
        LET columns == SortColumns(feed.sortBy)
            returned == { feed.rows[i].id : i \in DOMAIN feed.rows }
        IN  /\ Len(feed.rows) <= Limit
            /\ Cardinality(Matching) > Limit =>
                  /\ Len(feed.rows) = Limit
                  /\ Cardinality(returned) = Limit
                  /\ returned \subseteq Matching
                  /\ \A i \in DOMAIN feed.rows :
                        feed.rows[i] = FeedRow(feed.rows[i].id)
                  /\ \A i, j \in DOMAIN feed.rows :
                        i < j => ~SortsBefore(feed.rows[j], feed.rows[i],
                                              columns)
                  /\ \A id \in Matching \ returned :
                        \A i \in DOMAIN feed.rows :
                            ~SortsBefore(FeedRow(id), feed.rows[i], columns)

\* More than Limit stories match a call sorted by recency, whose last row
\* is one of two stories published at the same time: the other is left
\* out, with no other story.
C24_Witness ==
    /\ feed.valid /\ feed.sortBy = "recent"
    /\ Cardinality(Matching) = Limit + 1
    /\ Len(feed.rows) = Limit
    /\ feed.rows[Limit].id = 1
    /\ stories[1].publishedAt = stories[2].publishedAt
    /\ \A i \in DOMAIN feed.rows : feed.rows[i].id # 2

(***************************************************************************)
(* Properties of the methods that take an id.                              *)
(***************************************************************************)
\* The id of the call matches no row of the table the method works on.
MatchesNoRow(op, id) ==
    CASE op \in {"getStory", "updateStory", "publishStory"}
           -> id \notin DOMAIN stories
      [] op \in {"getChapter", "updateChapter", "publishChapter",
                 "deleteChapter"}
           -> ~ChapterExists(id)
      [] op \in {"getDraft", "updateDraft", "deleteDraft"}
           -> id \notin DraftIds
      [] op = "getUser" -> id \notin DOMAIN users

\* C30: a call of getStory, getChapter, getDraft, getUser, updateStory,
\* publishStory, updateChapter, publishChapter, updateDraft, deleteChapter
\* or deleteDraft with an id that matches no row does not throw, returns
\* nothing, and leaves every table unchanged.
C30_NotFoundIsAbsent ==
    [][(resp'.op # "none" /\ MatchesNoRow(resp'.op, resp'.id))
          => /\ ~resp'.threw
             /\ resp'.result = Null
             /\ UNCHANGED <<stories, chapters, drafts, users, likes,
                            notifications, bookmarks, highlights,
                            quotes>>]_vars

\* A patch of a chapter that was deleted has just returned nothing, next
\* to a story and a draft that were written.
C30_Witness ==
    /\ resp.op = "updateChapter" /\ resp.id = 1 /\ ~resp.threw
    /\ resp.result = Null /\ chapters = <<Null>>
    /\ stories[1].category = "poem"
    /\ drafts[1] # Null /\ Draft(1).authorId = "u2"

(***************************************************************************)
(* Likes of a story that does not exist.                                   *)
(***************************************************************************)
\* The Like rows of the story id storyId in the table.
LikesOfStory(table, storyId) ==
    { l \in BagToSet(table) : l.storyId = storyId }

\* C31: every Like row references an existing story, in every reachable
\* state; and a statement of a toggleLike(u, s) call that runs while s
\* matches no story leaves no Like row of s and creates no notification.
C31_NoLikeOfAbsentStory ==
    /\ [](\A l \in BagToSet(likes) : l.storyId \in DOMAIN stories)
    /\ [][\A p \in Procs :
            /\ procs[p].op = "toggleLike"
            /\ procs'[p] # procs[p]
            /\ procs[p].storyId \notin DOMAIN stories'
            => /\ LikesOfStory(likes', procs[p].storyId) = {}
               /\ notifications' = notifications]_vars

\* A toggleLike call for an id that matches no story has thrown at its
\* INSERT.
C31_Witness ==
    /\ resp.op = "toggleLike" /\ resp.threw
    /\ resp.storyId \notin DOMAIN stories
    /\ likes # EmptyBag

(***************************************************************************)
(* Properties of the delete routes of highlights, bookmarks and quotes.    *)
(***************************************************************************)
\* C32: a highlight, bookmark or quote is removed only by its owner.  A
\* delete route invoked with the id of a row r as a user other than
\* r.userId leaves r present and unchanged.
C32_OnlyTheOwnerDeletes ==
    [][resp'.op \in DeleteRoutes
         /\ DeleteRoute(resp'.op, resp'.userId, resp'.id)
         => /\ \A id \in DOMAIN highlights :
                  /\ highlights[id] # Null
                  /\ highlights[id].userId # resp'.userId
                  => highlights'[id] = highlights[id]
            /\ \A id \in BookmarkIds :
                  Bookmark(id).userId # resp'.userId
                  => bookmarks'[id] = bookmarks[id]
            /\ \A id \in DOMAIN quotes :
                  /\ quotes[id] # Null
                  /\ quotes[id].userId # resp'.userId
                  => quotes'[id] = quotes[id]]_vars

(***************************************************************************)
(* Properties of the GET routes.                                           *)
(***************************************************************************)
GetRouteNames == { GetRoutes[i].name : i \in DOMAIN GetRoutes }

\* The routes that answer with one object; the others answer with an
\* array of rows.
ObjectRoutes == {"GET /api/stories/:id", "GET /api/chapters/:id",
                 "GET /api/stories/:id/likes"}

\* The rows of the body of the last response of a GET route.
ReturnedRows ==
    IF resp.op \notin GetRouteNames \/ resp.status # 200 THEN {}
    ELSE IF resp.op \in ObjectRoutes THEN {resp.body}
    ELSE { resp.body[i] : i \in DOMAIN resp.body }

ReturnedChapters ==
    { row \in ReturnedRows : "chapterNumber" \in DOMAIN row }

\* C33: no response of a GET request, for a single chapter or for the
\* chapter list of a story, by a user who is not the author of the story or
\* by a caller without a session, holds a chapter with published = false.
C33_UnpublishedChaptersToAuthorOnly ==
    \A row \in ReturnedChapters :
        ~row.published => resp.caller = stories[row.storyId].authorId

\* A user who is not the author has requested an unpublished chapter of
\* the first story and was answered 404.
C33_Witness ==
    /\ resp.op = "GET /api/chapters/:id" /\ resp.status = 404
    /\ resp.caller \in Users
    /\ ChapterExists(RowId(resp.path[2]))
    /\ ~Chapter(RowId(resp.path[2])).published
    /\ resp.caller # stories[Chapter(RowId(resp.path[2])).storyId].authorId

\* The stories whose fields the last response of a GET route holds, as sent.
ReturnedStories ==
    { row \in ReturnedRows : "authorId" \in DOMAIN row }
      \cup { row.story : row \in { r \in ReturnedRows : "story" \in DOMAIN r } }

\* C34: GET /api/stories/:id, GET /api/users/:id/stories and GET
\* /api/quotes/public never send the fields of a story with published =
\* false, whatever quotes, likes and bookmarks exist.
C34_NoUnpublishedStoryFields ==
    resp.op \in {"GET /api/stories/:id", "GET /api/users/:id/stories",
                 "GET /api/quotes/public"}
      => \A story \in ReturnedStories : story.published

\* C35: a GET request for /api/stories/<id>/chapters is handled by the
\* chapter-list handler and answered with getStoryChapters(id), and a GET
\* request for /api/stories/<id>/likes by the like-count handler and
\* answered with getLikeCount(id); neither is handled by the route
\* /api/stories/:category/:sortBy.
C35_ChaptersAndLikesReachTheirHandlers ==
    [][\A caller \in DispatchCallers, id \in StoryIds :
          /\ GET(1, caller, <<"stories", Segment(id), "chapters">>)
                => /\ resp'.op = "GET /api/stories/:id/chapters"
                   /\ resp'.body \in StoryChapters(id)
          /\ GET(1, caller, <<"stories", Segment(id), "likes">>)
                => /\ resp'.op = "GET /api/stories/:id/likes"
                   /\ resp'.body = [count |-> getLikeCount(id)]]_vars

(***************************************************************************)
(* Concurrent likes of one story by two users.                             *)
(***************************************************************************)
\* C36: concurrent toggleLike calls by two different users on a story that
\* neither has liked lose no update, however their statements interleave.
\* Each call returns liked = true and a count of at least 1; and when the
\* second of the two calls returns, the story has two likes more than
\* before (none), and neither returned count is above that.
C36_ConcurrentLikesBothCount ==
    [][\A p \in PairProcs :
          /\ procs[p].op = "toggleLike" /\ procs[p].pc = "count"
          /\ procs'[p] = IdleProc
          => /\ resp'.liked /\ resp'.count >= 1
             /\ (/\ resp.op = "toggleLike"
                 /\ resp.storyId = procs[p].storyId
                 /\ resp.userId # procs[p].userId)
                  => /\ resp.liked
                     /\ getLikeCount(resp.storyId)' = 2
                     /\ resp.count <= 2 /\ resp'.count <= 2]_vars

\* The two calls overlapped: the call of u1 has returned a count of 2, and
\* the call of u2 on the same story is at its last statement.
C36_Witness ==
    /\ resp.op = "toggleLike" /\ resp.userId = "u1" /\ resp.liked
    /\ resp.count = 2
    /\ procs[2].op = "toggleLike" /\ procs[2].pc = "count"
    /\ procs[2].storyId = resp.storyId

====
